---- MODULE Spec2Model ----
(***************************************************************************)
(* litesql/ha: change-data-capture replication between SQLite nodes over   *)
(* a NATS JetStream stream.                                                *)
(*                                                                         *)
(* Every node owns a copy of the table users(id INTEGER PRIMARY KEY, name) *)
(* (README.md, "CDC message format"), so the column id is the rowid.  A    *)
(* database is a function from rowid to the name stored there, 0 when the  *)
(* row is absent.  The name a client transaction writes is the number of   *)
(* that transaction, which makes every write recognisable.                 *)
(***************************************************************************)
EXTENDS Integers, Sequences, FiniteSets, TLC

\* ------------------------------------------------------------------ bounds
Nodes == {"A", "B"}
MaxRowId == 1
MaxTxns == 2
MaxChanges == 2
MaxRestarts == 1
MaxConns == 2
ReplayMaxRowId == 2
ShortTxn == 1
MaxPoison == 1
PoisonTxns == 1
MaxSnaps == 2
SnapTxns == 1
ResumeTxns == 1
ClientTxns == 1
MaxStmts == 2
MaxMarkers == 2
MaxCommands == 2
MaxDDL == 2
CloseTxns == 1
ShutTxns == 1
SaveTxns == 1
MaxPrepared == 3
MaxLoads == 2

RowIds == 1..MaxRowId
Conns == 1..MaxConns
ReplayRowIds == 1..ReplayMaxRowId
Absent == 0
NoTx == [id |-> 0]
NoSave == [id |-> 0]
NoEntry == 0
Threads == {"t1", "t2"}
Ids == {"a.db", "b.db"}
Keys == Ids \cup {""}
NoSession == [server |-> "none", alive |-> FALSE, db |-> FALSE, tx |-> "nil", res |-> ""]
Idle == [op |-> "idle", id |-> "", pc |-> "", obj |-> 0, opt |-> "", def |-> FALSE]

VARIABLES
    db,         \* [Nodes -> [RowIds -> name or Absent]]: the database file of each node
    conn,       \* [Nodes -> [Conns -> [hooks, cs]]]: pooled connections, their hooks and changeSetSessions buffer
    tx,         \* [Nodes -> NoTx or [id, conn, undo]]: the open write transaction (SQLite has one writer)
    processID,  \* [Nodes -> Nat]: the startup sentinel of the running process
    restarts,   \* number of process restarts so far
    stream,     \* the JetStream stream: sequence of stored ChangeSets
    delivered,  \* [Nodes -> Nat]: highest stream sequence delivered to the node's durable consumer
    acked,      \* [Nodes -> SUBSET Nat]: stream sequences the server holds as acknowledged
    streamSeq,  \* [Nodes -> Nat]: CDCSubscriber.streamSeq
    applied,    \* [Nodes -> SUBSET Nat]: stream sequences handed to ChangeSet.Apply (history)
    txlog,      \* sequence of client transactions, by transaction number (history)
                \* failed: a statement of the transaction returned an error
    acs,        \* replay check: the ChangeSet under test
    adb,        \* replay check: the database it is applied to
    first,      \* replay check: the database after the first Apply
    runs,       \* replay check: number of Apply calls made
    prev,       \* replay check: the database before the last Apply
    aerr,       \* replay check: the last Apply returned an error
    store,      \* the object store bucket <stream>_SNAPSHOTS: [ObjNames -> object or NoObject]
    mu,         \* Snapshotter.mu: "free" or who holds it
    call,       \* [Callers -> the TakeSnapshot call of that caller]
    nsnap,      \* number of TakeSnapshot calls so far (names the tombstone)
    pending,    \* Put goroutines still running after their call went on: [by, obj]
    getter,     \* GetLatestSnapshot: "idle" or "reading"
    policy,     \* [Nodes -> delivery policy the subscriber was opened with]
    arg,        \* function check: the input of the function under test
    ret,        \* function check: what it returned, NotRun before the call
    subState,   \* [Nodes -> "open", "draining" or "closed"]: the subscriber's connection
    running,    \* [Nodes -> stream sequence the handler is working on, 0 if none]
    closed,     \* [Nodes -> BOOLEAN]: CDCSubscriber.Close has returned
    schema,     \* [Nodes -> set of DDL statements executed on the node's database]
    pool,       \* [Nodes -> "open" or "closed"]: the *sql.DB of the node's database
    pubState,   \* [Nodes -> "open" or "closed"]: the publisher of the node's connector
    shut,       \* [Nodes -> "up", "pool" or "done"]: how far sqlite.Close has come
    savepoint,  \* [Nodes -> NoSave or [id, db, len]]: the savepoint of the open transaction
    dbs,        \* the registry map: [Keys -> number of the connectorDB, NoEntry if the key is missing]
    muDBs,      \* the mutex of the registry: "free" or the thread that holds it
    thr,        \* [Threads -> what the wire handler of that session is doing]
    ent,        \* the connectorDBs made so far: sequence of [id, connector, pool]
    sess,       \* [Threads -> the session of a wire client: server, alive, db, tx, res]
    held        \* [Threads -> "none" or "open"]: the pooled connection and transaction of the session's sql.Tx

replVars == <<db, conn, tx, processID, restarts, stream, delivered, acked,
              streamSeq, applied, txlog>>
applyVars == <<acs, adb, first, runs, prev, aerr>>
snapVars == <<store, mu, call, nsnap, pending, getter, policy>>
fnVars == <<arg, ret>>
closeVars == <<subState, running, closed>>
regVars == <<pool, pubState, shut>>
sessVars == <<savepoint>>
dbsVars == <<dbs, muDBs, thr, ent>>
wireVars == <<sess, held>>
vars == <<db, conn, tx, processID, restarts, stream, delivered, acked,
          streamSeq, applied, txlog, acs, adb, first, runs, prev, aerr,
          store, mu, call, nsnap, pending, getter, policy, arg, ret,
          subState, running, closed, schema, pool, pubState, shut,
          savepoint, dbs, muDBs, thr, ent, sess, held>>

\* ------------------------------------------------------------------ Change
\* A Change as getChange builds it; the fields Apply never reads (old values,
\* database, table, columns of the one table) are left out.
Change(op, old, new, val) == [op |-> op, old |-> old, new |-> new, val |-> val]

EmptyDB == [r \in RowIds |-> Absent]

\* ------------------------------------------------------------------ engine
\* One SQL statement against a database: err, the database afterwards and
\* pre, the row changes the engine reports to a pre-update hook.

\* INSERT INTO users(id, name) VALUES (new, val)
SqlInsert(d, new, val) ==
    IF d[new] # Absent
    THEN [err |-> TRUE, db |-> d, pre |-> <<>>]
    ELSE [err |-> FALSE, db |-> [d EXCEPT ![new] = val],
          pre |-> <<Change("INSERT", 0, new, val)>>]

\* UPDATE users SET id = new, name = val WHERE rowid = old
SqlUpdate(d, old, new, val) ==
    IF d[old] = Absent
    THEN [err |-> FALSE, db |-> d, pre |-> <<>>]
    ELSE IF new # old /\ d[new] # Absent
    THEN [err |-> TRUE, db |-> d, pre |-> <<>>]
    ELSE [err |-> FALSE, db |-> [d EXCEPT ![old] = Absent, ![new] = val],
          pre |-> <<Change("UPDATE", old, new, val)>>]

\* DELETE FROM users WHERE rowid = old
SqlDelete(d, old) ==
    IF d[old] = Absent
    THEN [err |-> FALSE, db |-> d, pre |-> <<>>]
    ELSE [err |-> FALSE, db |-> [d EXCEPT ![old] = Absent],
          pre |-> <<Change("DELETE", old, 0, 0)>>]

\* INSERT INTO users(id, name, rowid) VALUES (?1, ?2, ?3)
\*   ON CONFLICT (rowid) DO UPDATE SET id = ?1, name = ?2
SqlUpsert(d, new, val) ==
    IF d[new] = Absent
    THEN SqlInsert(d, new, val)
    ELSE SqlUpdate(d, new, new, val)

\* A statement a client sends, by the Change it stands for.
ExecStatement(d, c) ==
    CASE c.op = "INSERT" -> SqlInsert(d, c.new, c.val)
      [] c.op = "UPDATE" -> SqlUpdate(d, c.old, c.new, c.val)
      [] OTHER -> SqlDelete(d, c.old)

\* ------------------------------------------------------------------ hooks
FreshConn == [hooks |-> TRUE, cs |-> <<>>]

\* enableCDCHooks: a new ChangeSet for the connection and the three hooks on it.
enableCDCHooks(c) == FreshConn

\* disableCDCHooks: the three hooks are unregistered.
disableCDCHooks(c) == [c EXCEPT !.hooks = FALSE]

\* The pre-update hook: cs.AddChange for every row change the engine reports.
PreUpdateHook(c, pre) == IF c.hooks THEN [c EXCEPT !.cs = c.cs \o pre] ELSE c

\* ChangeSet.Clear
Clear(c) == [c EXCEPT !.cs = <<>>]

\* The rollback hook as it would be if it left the ChangeSet as it is.
RollbackHookKeeps(c) == c

\* The rollback hook: cs.Clear.
RollbackHook(c) == IF c.hooks THEN Clear(c) ELSE c

\* What js.Publish can do with a message: store it and acknowledge, refuse it,
\* or leave the caller waiting until its context times out, with the message
\* stored by the server or lost on the way.
PubOutcomes == {"ack", "reject", "timeout_lost", "timeout_stored"}

\* Publish as it would be if a message could overtake the one published
\* before it.
PublishOvertakes(st, node, pid, ts, changes, outcome) ==
    LET msg == [node |-> node, pid |-> pid, changes |-> changes, ts |-> ts,
                bad |-> FALSE]
    IN  [err |-> outcome # "ack",
         stream |-> IF outcome \in {"ack", "timeout_stored"}
                    THEN <<msg>> \o st ELSE st]

\* CDCPublisher.Publish: stamps the process id and publishes with a timeout.
Publish(st, node, pid, ts, changes, outcome) ==
    LET msg == [node |-> node, pid |-> pid, changes |-> changes, ts |-> ts,
                bad |-> FALSE]
    IN  [err |-> outcome # "ack",
         stream |-> IF outcome \in {"ack", "timeout_stored"}
                    THEN Append(st, msg) ELSE st]

\* ChangeSet.Send: nothing to send, or Publish and then (deferred) Clear.
Send(c, st, node, pid, ts, outcome) ==
    IF Len(c.cs) = 0
    THEN [err |-> FALSE, stream |-> st, conn |-> c]
    ELSE LET p == Publish(st, node, pid, ts, c.cs, outcome)
         IN  [err |-> p.err, stream |-> p.stream, conn |-> Clear(c)]

\* The commit hook as it would be if the error of Send were only logged.
CommitHookIgnoresError(c, st, node, pid, ts, outcome) ==
    IF ~c.hooks
    THEN [rc |-> 0, stream |-> st, conn |-> c, sent |-> FALSE, err |-> FALSE]
    ELSE LET s == Send(c, st, node, pid, ts, outcome)
         IN  [rc |-> 0, stream |-> s.stream,
              conn |-> s.conn, sent |-> Len(c.cs) > 0, err |-> s.err]

\* The commit hook: 1 aborts the commit, 0 lets it through.  sent and err
\* report whether Send called Publish and whether it returned an error.
CommitHook(c, st, node, pid, ts, outcome) ==
    IF ~c.hooks
    THEN [rc |-> 0, stream |-> st, conn |-> c, sent |-> FALSE, err |-> FALSE]
    ELSE LET s == Send(c, st, node, pid, ts, outcome)
         IN  [rc |-> IF s.err THEN 1 ELSE 0, stream |-> s.stream,
              conn |-> s.conn, sent |-> Len(c.cs) > 0, err |-> s.err]

\* ------------------------------------------------------------------ clients
\* The statements of the clients: an INSERT of a row, an UPDATE of a row that
\* may move it to another id, a DELETE.
Statements(v) ==
    {Change("INSERT", 0, r, v) : r \in RowIds}
    \cup {Change("UPDATE", o, r, v) : o \in RowIds, r \in RowIds}
    \cup {Change("DELETE", o, 0, 0) : o \in RowIds}

\* A client statement on connection c of node n that changes a row; the first
\* one of a transaction takes the write lock.
ClientExec(n, c, st) ==
    /\ \/ tx[n] = NoTx /\ Len(txlog) < MaxTxns
       \/ tx[n] # NoTx /\ tx[n].conn = c
                       /\ Len(txlog[tx[n].id].changes) < MaxChanges
    /\ LET id == IF tx[n] = NoTx THEN Len(txlog) + 1 ELSE tx[n].id
           r == ExecStatement(db[n], st)
       IN  /\ st \in Statements(id)
           /\ ~r.err
           /\ r.pre # <<>>
           /\ db' = [db EXCEPT ![n] = r.db]
           /\ conn' = [conn EXCEPT ![n][c] = PreUpdateHook(@, r.pre)]
           /\ IF tx[n] = NoTx
              THEN /\ tx' = [tx EXCEPT ![n] = [id |-> id, conn |-> c, undo |-> db[n]]]
                   /\ txlog' = Append(txlog, [node |-> n, pid |-> processID[n],
                                              changes |-> r.pre, pub |-> "none",
                                              res |-> "open", failed |-> FALSE])
              ELSE /\ tx' = tx
                   /\ txlog' = [txlog EXCEPT ![id].changes = @ \o r.pre]
    /\ UNCHANGED <<processID, restarts, stream, delivered, acked, streamSeq,
                   applied, applyVars, fnVars, closeVars, regVars, sessVars, wireVars, dbsVars, schema, snapVars>>

\* COMMIT: the engine calls the commit hook and commits unless it returns
\* non-zero; an aborted commit is rolled back, which calls the rollback hook.
ClientCommit(n, outcome) ==
    /\ tx[n] # NoTx
    /\ LET c == tx[n].conn
           id == tx[n].id
           h == CommitHook(conn[n][c], stream, n, processID[n], id, outcome)
       IN  /\ stream' = h.stream
           /\ IF h.rc = 0
              THEN /\ db' = db
                   /\ conn' = [conn EXCEPT ![n][c] = h.conn]
              ELSE /\ db' = [db EXCEPT ![n] = tx[n].undo]
                   /\ conn' = [conn EXCEPT ![n][c] = RollbackHook(h.conn)]
           /\ txlog' = [txlog EXCEPT
                  ![id].pub = IF ~h.sent THEN "none"
                              ELSE IF h.err THEN "err" ELSE "ok",
                  ![id].res = IF h.rc = 0 THEN "ok" ELSE "error"]
    /\ tx' = [tx EXCEPT ![n] = NoTx]
    /\ UNCHANGED <<processID, restarts, delivered, acked, streamSeq, applied,
                   applyVars, fnVars, closeVars, regVars, sessVars, wireVars, dbsVars, schema, snapVars>>

\* ROLLBACK: the engine restores the database and calls the rollback hook.
ClientRollback(n) ==
    /\ tx[n] # NoTx
    /\ db' = [db EXCEPT ![n] = tx[n].undo]
    /\ conn' = [conn EXCEPT ![n][tx[n].conn] = RollbackHook(@)]
    /\ txlog' = [txlog EXCEPT ![tx[n].id].res = "rolledback"]
    /\ tx' = [tx EXCEPT ![n] = NoTx]
    /\ UNCHANGED <<processID, restarts, stream, delivered, acked, streamSeq,
                   applied, applyVars, fnVars, closeVars, regVars, sessVars, wireVars, dbsVars, schema, snapVars>>

\* A statement of a PostgreSQL-wire session inside its BEGIN that the engine
\* refuses: handler returns the error to the client and leaves the session's
\* transaction attribute as it is.
PgExecFails(n, c, st) ==
    /\ tx[n] # NoTx
    /\ tx[n].conn = c
    /\ st \in Statements(tx[n].id)
    /\ ExecStatement(db[n], st).err
    /\ txlog' = [txlog EXCEPT ![tx[n].id].failed = TRUE]
    /\ UNCHANGED <<db, conn, tx, processID, restarts, stream, delivered, acked,
                   streamSeq, applied, applyVars, fnVars, closeVars, regVars, sessVars, wireVars, dbsVars, schema, snapVars>>

\* SQL text that ha.ParseStatement refuses.
BadSql == Change("BAD", 0, 0, 0)

\* The request bodies of POST /query with several statements.
Queries(v) ==
    {<<a, b>> : a \in Statements(v) \cup {BadSql}, b \in Statements(v) \cup {BadSql}}

\* The loop of Transaction: parse and Exec query after query on the
\* transaction, stop at the first error.
RECURSIVE RunQueries(_, _, _)
RunQueries(d, c, queries) ==
    IF queries = <<>>
    THEN [err |-> FALSE, db |-> d, conn |-> c]
    ELSE IF Head(queries) = BadSql
    THEN [err |-> TRUE, db |-> d, conn |-> c]
    ELSE LET r == ExecStatement(d, Head(queries))
         IN  IF r.err
             THEN [err |-> TRUE, db |-> d, conn |-> c]
             ELSE RunQueries(r.db, PreUpdateHook(c, r.pre), Tail(queries))

\* QueryHandler with more than one query: sqlite.Transaction from BeginTx to
\* Commit or the deferred Rollback, on connection c of node n.
Transaction(n, c, queries, outcome) ==
    /\ tx[n] = NoTx
    /\ Len(txlog) < ClientTxns
    /\ LET id == Len(txlog) + 1
           run == RunQueries(db[n], conn[n][c], queries)
           h == CommitHook(run.conn, stream, n, processID[n], id, outcome)
           rec == [node |-> n, pid |-> processID[n], changes |-> run.conn.cs,
                   pub |-> "none", res |-> "error", failed |-> run.err]
       IN  /\ queries \in Queries(id)
           /\ IF run.err
              THEN /\ db' = db
                   /\ conn' = [conn EXCEPT ![n][c] = RollbackHook(run.conn)]
                   /\ stream' = stream
                   /\ txlog' = Append(txlog, rec)
              ELSE /\ stream' = h.stream
                   /\ IF h.rc = 0
                      THEN /\ db' = [db EXCEPT ![n] = run.db]
                           /\ conn' = [conn EXCEPT ![n][c] = h.conn]
                      ELSE /\ db' = db
                           /\ conn' = [conn EXCEPT ![n][c] = RollbackHook(h.conn)]
                   /\ txlog' = Append(txlog, [rec EXCEPT
                          !.pub = IF ~h.sent THEN "none"
                                  ELSE IF h.err THEN "err" ELSE "ok",
                          !.res = IF h.rc = 0 THEN "ok" ELSE "error"])
    /\ UNCHANGED <<tx, processID, restarts, delivered, acked, streamSeq,
                   applied, applyVars, fnVars, closeVars, regVars, sessVars, wireVars, dbsVars, schema, snapVars>>

\* ------------------------------------------------------------------ applier
\* The statements of ChangeSet.Apply, one per change, on the connection c of
\* the replay transaction; the first error stops the loop.
RECURSIVE ApplyChanges(_, _, _)
ApplyChanges(d, c, changes) ==
    IF changes = <<>>
    THEN [err |-> FALSE, db |-> d, conn |-> c]
    ELSE LET ch == Head(changes)
             known == ch.op \in {"INSERT", "UPDATE", "DELETE"}
             r == CASE ch.op = "INSERT" -> SqlUpsert(d, ch.new, ch.val)
                    [] ch.op = "UPDATE" -> SqlUpdate(d, ch.old, ch.new, ch.val)
                    [] ch.op = "DELETE" -> SqlDelete(d, ch.old)
                    [] OTHER -> [err |-> FALSE, db |-> d, pre |-> <<>>]
         IN  IF known /\ r.err
             THEN [err |-> TRUE, db |-> d, conn |-> c]
             ELSE ApplyChanges(r.db, PreUpdateHook(c, r.pre), Tail(changes))

\* ChangeSet.Apply as it would be without tx.Rollback: the statements run
\* before the failing one stay.
ApplyKeepsPartial(d, c, st, node, pid, changes, locked) ==
    IF Len(changes) = 0
    THEN [err |-> FALSE, db |-> d, conn |-> c, stream |-> st]
    ELSE LET off == disableCDCHooks(c)
             r == ApplyChanges(d, off, changes)
             h == CommitHook(r.conn, st, node, pid, 0, "ack")
         IN  IF locked \/ r.err \/ h.rc # 0
             THEN [err |-> TRUE, db |-> IF locked THEN d ELSE r.db,
                   conn |-> enableCDCHooks(off),
                   stream |-> IF locked \/ r.err THEN st ELSE h.stream]
             ELSE [err |-> FALSE, db |-> r.db, conn |-> enableCDCHooks(h.conn),
                   stream |-> h.stream]

\* ChangeSet.Apply as it would be if enableCDCHooks were called on the way
\* to a successful commit only, not deferred.
ApplyEnablesOnSuccess(d, c, st, node, pid, changes, locked) ==
    IF Len(changes) = 0
    THEN [err |-> FALSE, db |-> d, conn |-> c, stream |-> st]
    ELSE LET off == disableCDCHooks(c)
             r == ApplyChanges(d, off, changes)
             h == CommitHook(r.conn, st, node, pid, 0, "ack")
         IN  IF locked \/ r.err \/ h.rc # 0
             THEN [err |-> TRUE, db |-> d, conn |-> off,
                   stream |-> IF locked \/ r.err THEN st ELSE h.stream]
             ELSE [err |-> FALSE, db |-> r.db, conn |-> enableCDCHooks(h.conn),
                   stream |-> h.stream]

\* ChangeSet.Apply on database d with pooled connection c: hooks off, one
\* transaction for all changes, rollback on the first error, commit, hooks on
\* again.  locked: a client transaction holds the write lock, so the first
\* statement ends with SQLITE_BUSY.  The commit calls whatever commit hook the
\* connection still has.
Apply(d, c, st, node, pid, changes, locked) ==
    IF Len(changes) = 0
    THEN [err |-> FALSE, db |-> d, conn |-> c, stream |-> st]
    ELSE LET off == disableCDCHooks(c)
             r == ApplyChanges(d, off, changes)
             h == CommitHook(r.conn, st, node, pid, 0, "ack")
         IN  IF locked \/ r.err \/ h.rc # 0
             THEN [err |-> TRUE, db |-> d, conn |-> enableCDCHooks(off),
                   stream |-> IF locked \/ r.err THEN st ELSE h.stream]
             ELSE [err |-> FALSE, db |-> r.db, conn |-> enableCDCHooks(h.conn),
                   stream |-> h.stream]

\* ------------------------------------------------------------------ subscriber
\* The origin filter as it would be with the node name alone.
IsOwnNodeOnly(n, cs) == cs.node = n

\* The origin filter as it would be with the process id alone.
IsOwnPidOnly(n, cs) == cs.pid = processID[n]

\* The origin filter of the handler.
IsOwn(n, cs) == cs.node = n /\ cs.pid = processID[n]

\* CDCSubscriber.ack: msg.Ack() may fail; streamSeq is set either way.
ack(n, s, ackOk) ==
    [acked |-> IF ackOk THEN acked[n] \cup {s} ELSE acked[n],
     streamSeq |-> s]

\* The handler as it would be if it went on to ack after a failed Apply.
handlerAcksOnError(n, s, c, ackOk) ==
    LET cs == stream[s]
        a == Apply(db[n], conn[n][c], stream, n, processID[n], cs.changes,
                   tx[n] # NoTx)
    IN  IF cs.bad
        THEN [out |-> "undecodable", sub |-> ack(n, s, ackOk), db |-> db[n],
              conn |-> conn[n][c], stream |-> stream, handed |-> FALSE]
        ELSE IF IsOwn(n, cs)
        THEN [out |-> "dropped", sub |-> ack(n, s, ackOk), db |-> db[n],
              conn |-> conn[n][c], stream |-> stream, handed |-> FALSE]
        ELSE [out |-> IF a.err THEN "apply_error" ELSE "applied",
              sub |-> ack(n, s, ackOk), db |-> a.db,
              conn |-> a.conn, stream |-> a.stream, handed |-> TRUE]

\* The handler as it would be if it returned without ack when the payload
\* does not decode.
handlerLeavesUndecodable(n, s, c, ackOk) ==
    LET cs == stream[s]
        still == [acked |-> acked[n], streamSeq |-> streamSeq[n]]
        a == Apply(db[n], conn[n][c], stream, n, processID[n], cs.changes,
                   tx[n] # NoTx)
    IN  IF cs.bad
        THEN [out |-> "undecodable", sub |-> still, db |-> db[n],
              conn |-> conn[n][c], stream |-> stream, handed |-> FALSE]
        ELSE IF IsOwn(n, cs)
        THEN [out |-> "dropped", sub |-> ack(n, s, ackOk), db |-> db[n],
              conn |-> conn[n][c], stream |-> stream, handed |-> FALSE]
        ELSE IF a.err
        THEN [out |-> "apply_error", sub |-> still, db |-> a.db,
              conn |-> a.conn, stream |-> a.stream, handed |-> TRUE]
        ELSE [out |-> "applied", sub |-> ack(n, s, ackOk), db |-> a.db,
              conn |-> a.conn, stream |-> a.stream, handed |-> TRUE]

\* CDCSubscriber.handler for the message with stream sequence s on node n,
\* the replay on pooled connection c: what it leaves behind.  A payload that
\* json.Unmarshal refuses is acked and dropped.
handler(n, s, c, ackOk) ==
    LET cs == stream[s]
        still == [acked |-> acked[n], streamSeq |-> streamSeq[n]]
        a == Apply(db[n], conn[n][c], stream, n, processID[n], cs.changes,
                   tx[n] # NoTx)
    IN  IF cs.bad
        THEN [out |-> "undecodable", sub |-> ack(n, s, ackOk), db |-> db[n],
              conn |-> conn[n][c], stream |-> stream, handed |-> FALSE]
        ELSE IF IsOwn(n, cs)
        THEN [out |-> "dropped", sub |-> ack(n, s, ackOk), db |-> db[n],
              conn |-> conn[n][c], stream |-> stream, handed |-> FALSE]
        ELSE IF a.err
        THEN [out |-> "apply_error", sub |-> still, db |-> a.db,
              conn |-> a.conn, stream |-> a.stream, handed |-> TRUE]
        ELSE [out |-> "applied", sub |-> ack(n, s, ackOk), db |-> a.db,
              conn |-> a.conn, stream |-> a.stream, handed |-> TRUE]

\* The durable consumer of node n delivers message s: the next one of the
\* stream, or again one that was delivered and is not acknowledged.
Handler(n, s, c, ackOk) ==
    /\ s \in 1..Len(stream)
    /\ s <= delivered[n] + 1
    /\ s \notin acked[n]
    /\ tx[n] # NoTx => tx[n].conn # c
    /\ LET h == handler(n, s, c, ackOk)
       IN  /\ db' = [db EXCEPT ![n] = h.db]
           /\ conn' = [conn EXCEPT ![n][c] = h.conn]
           /\ stream' = h.stream
           /\ acked' = [acked EXCEPT ![n] = h.sub.acked]
           /\ streamSeq' = [streamSeq EXCEPT ![n] = h.sub.streamSeq]
           /\ applied' = [applied EXCEPT ![n] = IF h.handed THEN @ \cup {s} ELSE @]
    /\ delivered' = [delivered EXCEPT ![n] = IF s > @ THEN s ELSE @]
    /\ UNCHANGED <<tx, processID, restarts, txlog, applyVars, fnVars, closeVars, regVars, sessVars, wireVars, dbsVars, schema, snapVars>>

\* ------------------------------------------------------------------ process
\* The process of node n stops and starts again: a new processID, new
\* connections with hooks, streamSeq zero, the open transaction lost; the
\* durable consumer and the database file stay.
Restart(n) ==
    /\ restarts < MaxRestarts
    /\ restarts' = restarts + 1
    /\ processID' = [processID EXCEPT ![n] = @ + 1]
    /\ conn' = [conn EXCEPT ![n] = [c \in Conns |-> FreshConn]]
    /\ streamSeq' = [streamSeq EXCEPT ![n] = 0]
    /\ IF tx[n] = NoTx
       THEN UNCHANGED <<db, txlog>>
       ELSE /\ db' = [db EXCEPT ![n] = tx[n].undo]
            /\ txlog' = [txlog EXCEPT ![tx[n].id].res = "crashed"]
    /\ tx' = [tx EXCEPT ![n] = NoTx]
    /\ UNCHANGED <<stream, delivered, acked, applied, applyVars, fnVars, closeVars, regVars, sessVars, wireVars, dbsVars, schema, snapVars>>

\* ------------------------------------------------------------------ snapshotter
\* The objects of the bucket: 0 is "latest", i is the tombstone bkp_<time> of
\* the i-th TakeSnapshot call.
ObjNames == 0..MaxSnaps
NoObject == [none |-> TRUE]

\* The two callers of TakeSnapshot in a process: the ticker of start and the
\* handler of POST /snapshot.
Callers == {"timer", "http"}

\* The node whose snapshotter is followed step by step.
SnapNode == "A"

IdleCall == [pc |-> "idle", seq |-> 0, bkp |-> 0, before |-> NoObject,
             err |-> FALSE, cancelled |-> FALSE, res |-> "none"]

\* The package variable seq of the publisher: the stream sequence of the last
\* PubAck this process received, 0 before the first.
PubAcked(n) ==
    {s \in 1..Len(stream) : /\ stream[s].node = n
                            /\ stream[s].pid = processID[n]
                            /\ stream[s].ts \in 1..Len(txlog)
                            /\ txlog[stream[s].ts].pub = "ok"}

seq(n) == IF PubAcked(n) = {} THEN 0
          ELSE CHOOSE s \in PubAcked(n) : \A s2 \in PubAcked(n) : s2 <= s

\* What sqlite.Backup copies: the committed rows of the node.
CommittedDB(n) == IF tx[n] = NoTx THEN db[n] ELSE tx[n].undo

\* The ChangeSets whose effect an image of node n holds: those handed to
\* Apply on n and those of n's own committed transactions.
Reflected(n) ==
    applied[n] \cup {s \in 1..Len(stream) : /\ stream[s].node = n
                                            /\ stream[s].ts \in 1..Len(txlog)
                                            /\ txlog[stream[s].ts].res = "ok"}

\* The object a TakeSnapshot call of node n writes with header seq = q.
Snapshot(n, q) == [img |-> CommittedDB(n), seq |-> q, has |-> Reflected(n)]

\* TakeSnapshot, s.mu.Lock() and sequence = seq.
SnapLock(k) ==
    /\ mu = "free"
    /\ call[k].pc = "idle"
    /\ nsnap < MaxSnaps
    /\ mu' = k
    /\ nsnap' = nsnap + 1
    /\ call' = [call EXCEPT ![k] = [pc |-> "locked", seq |-> seq(SnapNode),
                                    bkp |-> nsnap + 1, before |-> store[0],
                                    err |-> FALSE, cancelled |-> FALSE,
                                    res |-> "running"]]
    /\ UNCHANGED <<replVars, applyVars, fnVars, closeVars, regVars, sessVars, wireVars, dbsVars, schema, store, pending, getter, policy>>

\* TakeSnapshot, UpdateMeta("latest" -> bkpFile): an error other than
\* ErrUpdateMetaDeleted returns at once, before the deferred function exists.
SnapRename(k, ok) ==
    /\ call[k].pc = "locked"
    /\ IF ~ok
       THEN /\ call' = [call EXCEPT ![k].pc = "idle", ![k].err = TRUE,
                                    ![k].res = "err"]
            /\ mu' = "free"
            /\ store' = store
       ELSE /\ call' = [call EXCEPT ![k].pc = "renamed"]
            /\ mu' = mu
            /\ store' = IF store[0] = NoObject
                        THEN store
                        ELSE [store EXCEPT ![call[k].bkp] = store[0],
                                           ![0] = NoObject]
    /\ UNCHANGED <<replVars, applyVars, fnVars, closeVars, regVars, sessVars, wireVars, dbsVars, schema, nsnap, pending, getter, policy>>

SnapOutcomes == {"ok", "backup_error", "put_error", "cancelled"}

\* TakeSnapshot, the two goroutines and the select: Backup into the pipe and
\* Put("latest") from it.  When ctx is done the call goes on to return
\* while the Put goroutine is still running.
SnapTransfer(k, outcome) ==
    /\ call[k].pc = "renamed"
    /\ call' = [call EXCEPT ![k].pc = "returning",
                            ![k].err = outcome # "ok",
                            ![k].cancelled = outcome = "cancelled"]
    /\ store' = IF outcome = "ok"
                THEN [store EXCEPT ![0] = Snapshot(SnapNode, call[k].seq)]
                ELSE store
    /\ pending' = IF outcome = "cancelled"
                  THEN pending \cup {[by |-> k,
                                        obj |-> Snapshot(SnapNode, call[k].seq)]}
                  ELSE pending
    /\ UNCHANGED <<replVars, applyVars, fnVars, closeVars, regVars, sessVars, wireVars, dbsVars, schema, mu, nsnap, getter, policy>>

\* TakeSnapshot, the deferred function and s.mu.Unlock(): Delete(bkpFile)
\* after success, UpdateMeta(bkpFile -> "latest") after an error.  Both use
\* the ctx of the call; UpdateMeta fails when that ctx is done, when the
\* tombstone does not exist and when "latest" exists; its error is dropped.
SnapReturn(k) ==
    /\ call[k].pc = "returning"
    /\ LET b == call[k].bkp
       IN  store' =
             IF ~call[k].err
             THEN [store EXCEPT ![b] = NoObject]
             ELSE IF ~call[k].cancelled /\ store[b] # NoObject /\ store[0] = NoObject
             THEN [store EXCEPT ![0] = store[b], ![b] = NoObject]
             ELSE store
    /\ call' = [call EXCEPT ![k].pc = "idle",
                            ![k].res = IF call[k].err THEN "err" ELSE "ok"]
    /\ mu' = "free"
    /\ UNCHANGED <<replVars, applyVars, fnVars, closeVars, regVars, sessVars, wireVars, dbsVars, schema, nsnap, pending, getter, policy>>

\* The Put goroutine of a call that has returned ends: it notices the
\* cancellation and writes nothing, or its last message was already out and
\* "latest" is the object it wrote.
PutEnds(p, lands) ==
    /\ p \in pending
    /\ pending' = pending \ {p}
    /\ store' = IF lands THEN [store EXCEPT ![0] = p.obj] ELSE store
    /\ UNCHANGED <<replVars, applyVars, fnVars, closeVars, regVars, sessVars, wireVars, dbsVars, schema, mu, call, nsnap, getter, policy>>

\* GetLatestSnapshot: s.mu.Lock(), GetInfo and Get of "latest", Unlock.
GetLock ==
    /\ mu = "free"
    /\ getter = "idle"
    /\ mu' = "get"
    /\ getter' = "reading"
    /\ UNCHANGED <<replVars, applyVars, fnVars, closeVars, regVars, sessVars, wireVars, dbsVars, schema, store, call, nsnap, pending, policy>>

GetReturn ==
    /\ getter = "reading"
    /\ mu' = "free"
    /\ getter' = "idle"
    /\ UNCHANGED <<replVars, applyVars, fnVars, closeVars, regVars, sessVars, wireVars, dbsVars, schema, store, call, nsnap, pending, policy>>

\* ------------------------------------------------------------------ system
\* NewSnapshotter and --replication-policy: an empty bucket, no call, the
\* subscribers opened with the default policy.
NoPolicy == [kind |-> "", seq |-> 0]

NotRun == [kind |-> "none"]

\* Every database loaded: pool, publisher and subscriber open.
InitUp ==
    /\ pool = [n \in Nodes |-> "open"]
    /\ pubState = [n \in Nodes |-> "open"]
    /\ shut = [n \in Nodes |-> "up"]
    /\ savepoint = [n \in Nodes |-> NoSave]
    /\ dbs = [k \in Keys |-> NoEntry]
    /\ muDBs = "free"
    /\ thr = [t \in Threads |-> Idle]
    /\ ent = <<>>
    /\ sess = [t \in Threads |-> NoSession]
    /\ held = [t \in Threads |-> "none"]

\* No function under test, every subscriber consuming.
InitIdle ==
    /\ InitUp
    /\ arg = NotRun
    /\ ret = NotRun
    /\ subState = [n \in Nodes |-> "open"]
    /\ running = [n \in Nodes |-> 0]
    /\ closed = [n \in Nodes |-> FALSE]
    /\ schema = [n \in Nodes |-> {}]

InitSnapshotter ==
    /\ store = [o \in ObjNames |-> NoObject]
    /\ mu = "free"
    /\ call = [k \in Callers |-> IdleCall]
    /\ nsnap = 0
    /\ pending = {}
    /\ getter = "idle"
    /\ policy = [n \in Nodes |-> NoPolicy]

Init ==
    /\ db = [n \in Nodes |-> EmptyDB]
    /\ conn = [n \in Nodes |-> [c \in Conns |-> FreshConn]]
    /\ tx = [n \in Nodes |-> NoTx]
    /\ processID = [n \in Nodes |-> 1]
    /\ restarts = 0
    /\ stream = <<>>
    /\ delivered = [n \in Nodes |-> 0]
    /\ acked = [n \in Nodes |-> {}]
    /\ streamSeq = [n \in Nodes |-> 0]
    /\ applied = [n \in Nodes |-> {}]
    /\ txlog = <<>>
    /\ acs = <<>>
    /\ adb = EmptyDB
    /\ first = EmptyDB
    /\ runs = 0
    /\ prev = EmptyDB
    /\ aerr = FALSE
    /\ InitSnapshotter
    /\ InitIdle

\* One run of the processes of the cluster.
Next ==
    \/ \E n \in Nodes, c \in Conns, st \in Statements(Len(txlog) + 1) \cup
            Statements(Len(txlog)) : ClientExec(n, c, st)
    \/ \E n \in Nodes, o \in PubOutcomes : ClientCommit(n, o)
    \/ \E n \in Nodes : ClientRollback(n)
    \/ \E n \in Nodes, s \in 1..Len(stream), c \in Conns, ok \in BOOLEAN :
            Handler(n, s, c, ok)

Spec == Init /\ [][Next]_vars

\* Every transaction so far has at most ShortTxn changes.
ShortTxns == \A t \in 1..Len(txlog) : Len(txlog[t].changes) <= ShortTxn

\* The cluster with processes that stop and start again, its transactions short.
NextRestart ==
    \/ Next /\ ShortTxns'
    \/ \E n \in Nodes : Restart(n)

SpecRestart == Init /\ [][NextRestart]_vars

\* The durable consumer of every node keeps delivering: consumer.Consume pulls
\* for as long as the subscriber runs, and the server hands every stored
\* message that is not acknowledged to the consumer.
Delivery ==
    \A n \in Nodes, s \in 1..MaxTxns :
        WF_vars(\E c \in Conns, ok \in BOOLEAN : Handler(n, s, c, ok))

\* The running cluster under that delivery, its transactions short.
NextLive == Next /\ ShortTxns'

SpecLive == Init /\ [][NextLive]_vars /\ Delivery

\* Some other client of the server publishes a payload on the stream's
\* subject that is no JSON ChangeSet.
PoisonPill == [node |-> "", pid |-> 0, changes |-> <<>>, ts |-> 0, bad |-> TRUE]

PoisonPublish ==
    /\ Cardinality({s \in 1..Len(stream) : stream[s].bad}) < MaxPoison
    /\ stream' = Append(stream, PoisonPill)
    /\ UNCHANGED <<db, conn, tx, processID, restarts, delivered, acked,
                   streamSeq, applied, txlog, applyVars, fnVars, closeVars, regVars, sessVars, wireVars, dbsVars, schema, snapVars>>

\* The running cluster with such payloads in the stream, its transactions
\* short and at most PoisonTxns of them.
NextPoison ==
    \/ Next /\ ShortTxns' /\ Len(txlog') <= PoisonTxns
    \/ PoisonPublish

SpecPoison == Init /\ [][NextPoison]_vars

\* The snapshotter of SnapNode with its two callers and a reader of the
\* latest snapshot, next to at most SnapTxns short client transactions.
NextSnap ==
    \/ \E k \in Callers : SnapLock(k)
    \/ \E k \in Callers, ok \in BOOLEAN : SnapRename(k, ok)
    \/ \E k \in Callers, o \in SnapOutcomes : SnapTransfer(k, o)
    \/ \E k \in Callers : SnapReturn(k)
    \/ \E p \in pending, lands \in BOOLEAN : PutEnds(p, lands)
    \/ GetLock
    \/ GetReturn
    \/ /\ \/ \E n \in Nodes, c \in Conns, st \in Statements(Len(txlog) + 1) :
                 ClientExec(n, c, st)
          \/ \E n \in Nodes, o \in PubOutcomes : ClientCommit(n, o)
       /\ ShortTxns'
       /\ Len(txlog') <= SnapTxns

SpecSnap == Init /\ [][NextSnap]_vars

\* ------------------------------------------------------------------ resume
\* --replication-policy as the operator gives it, and by_start_sequence=N as
\* Load formats it with %d and NewCDCSubscriber reads it back with Sscanf %d
\* (the same number: N is a uint64 in decimal).
AllPolicy == [kind |-> "all", seq |-> 0]
ByStartSequence(q) == [kind |-> "by_start_sequence", seq |-> q]
OperatorPolicies == {NoPolicy, AllPolicy}

\* Load: the delivery policy handed to the subscriber, given the sequence
\* header of the latest snapshot and the operator's policy.
LoadPolicy(fromLatestSnapshot, sequence, deliverPolicy) ==
    IF fromLatestSnapshot /\ sequence > 0 /\ deliverPolicy = NoPolicy
    THEN ByStartSequence(sequence)
    ELSE deliverPolicy

\* NewCDCSubscriber: the first stream sequence a new consumer delivers.
StartSeq(p) == IF p.kind = "by_start_sequence" THEN p.seq ELSE 1

\* One whole TakeSnapshot call of node n that returns nil.
TakeSnapshot(n) ==
    /\ nsnap < MaxSnaps
    /\ nsnap' = nsnap + 1
    /\ store' = [store EXCEPT ![0] = Snapshot(n, seq(n))]
    /\ UNCHANGED <<replVars, applyVars, fnVars, closeVars, regVars, sessVars, wireVars, dbsVars, schema, mu, call, pending, getter, policy>>

\* The process of node n stops and starts again with --from-latest-snapshot
\* and the operator's policy op: the database file is the image of "latest",
\* the subscriber is opened with the policy Load computes.  fresh: the
\* durable consumer of the node is gone and CreateConsumer makes a new one
\* from that policy; otherwise CreateConsumer answers ErrConsumerExists and
\* the consumer goes on from where it is.
RestoreRestart(n, op, fresh) ==
    /\ restarts < MaxRestarts
    /\ store[0] # NoObject
    /\ restarts' = restarts + 1
    /\ processID' = [processID EXCEPT ![n] = @ + 1]
    /\ conn' = [conn EXCEPT ![n] = [c \in Conns |-> FreshConn]]
    /\ streamSeq' = [streamSeq EXCEPT ![n] = 0]
    /\ db' = [db EXCEPT ![n] = store[0].img]
    /\ applied' = [applied EXCEPT ![n] = store[0].has]
    /\ txlog' = IF tx[n] = NoTx THEN txlog
                ELSE [txlog EXCEPT ![tx[n].id].res = "crashed"]
    /\ tx' = [tx EXCEPT ![n] = NoTx]
    /\ LET p == LoadPolicy(TRUE, store[0].seq, op)
       IN  /\ policy' = [policy EXCEPT ![n] = p]
           /\ delivered' = IF fresh THEN [delivered EXCEPT ![n] = StartSeq(p) - 1]
                           ELSE delivered
           /\ acked' = IF fresh THEN [acked EXCEPT ![n] = 1..(StartSeq(p) - 1)]
                       ELSE acked
    /\ UNCHANGED <<stream, applyVars, fnVars, closeVars, regVars, sessVars, wireVars, dbsVars, schema, store, mu, call, nsnap, pending, getter>>

\* The cluster with snapshots and restarts from the latest snapshot, its
\* transactions short.
NextResume ==
    \/ Next /\ ShortTxns' /\ Len(txlog') <= ResumeTxns
    \/ \E n \in Nodes : TakeSnapshot(n)
    \/ \E n \in Nodes, op \in OperatorPolicies, fresh \in BOOLEAN :
            RestoreRestart(n, op, fresh)

SpecResume == Init /\ [][NextResume]_vars

\* The cluster with its client surfaces: statements and transactions of
\* sessions, statements that fail, batches over HTTP; at most ClientTxns
\* transactions.
NextClient ==
    \/ Next /\ Len(txlog') <= ClientTxns
    \/ \E n \in Nodes, c \in Conns, st \in Statements(Len(txlog)) :
            PgExecFails(n, c, st)
    \/ \E n \in Nodes, c \in Conns, o \in PubOutcomes,
          queries \in Queries(Len(txlog) + 1) : Transaction(n, c, queries, o)

SpecClient == Init /\ [][NextClient]_vars

\* The cluster at rest, for the checks of single functions.
InitRest ==
    /\ db = [n \in Nodes |-> EmptyDB]
    /\ conn = [n \in Nodes |-> [c \in Conns |-> FreshConn]]
    /\ tx = [n \in Nodes |-> NoTx]
    /\ processID = [n \in Nodes |-> 1]
    /\ restarts = 0
    /\ stream = <<>>
    /\ delivered = [n \in Nodes |-> 0]
    /\ acked = [n \in Nodes |-> {}]
    /\ streamSeq = [n \in Nodes |-> 0]
    /\ applied = [n \in Nodes |-> {}]
    /\ txlog = <<>>
    /\ acs = <<>>
    /\ adb = EmptyDB
    /\ first = EmptyDB
    /\ runs = 0
    /\ prev = EmptyDB
    /\ aerr = FALSE
    /\ InitSnapshotter
    /\ subState = [n \in Nodes |-> "open"]
    /\ running = [n \in Nodes |-> 0]
    /\ closed = [n \in Nodes |-> FALSE]
    /\ schema = [n \in Nodes |-> {}]
    /\ InitUp

\* ------------------------------------------------------------------ classifier
\* SQL text as the parser sees it: a sequence of statements, each with the
\* rule of sql_stmt it matches (INVALID: none, a syntax error), a RETURNING
\* clause or not, its bind markers in the order of the text, and the row of
\* users it is about.  hasDistinct and columns of Statement are left out.
TypeSelect == "SELECT"
TypeInsert == "INSERT"
TypeUpdate == "UPDATE"
TypeDelete == "DELETE"
TypeCreateTable == "CREATE TABLE"
TypeBegin == "BEGIN"
TypeOther == "OTHER"
Invalid == "INVALID"
Pragma == "PRAGMA"

DML == {TypeInsert, TypeUpdate, TypeDelete}
BindMarkers == {":x", ":y", "?"}
MarkerLists == UNION {[1..k -> BindMarkers] : k \in 0..MaxMarkers}

SqlStmt(k, returning, markers, row) ==
    [rule |-> k, returning |-> returning, markers |-> markers, row |-> row]

SqlStmts ==
    {SqlStmt(k, b, m, r) : k \in DML, b \in BOOLEAN, m \in MarkerLists, r \in RowIds}
    \cup {SqlStmt(TypeSelect, FALSE, m, r) : m \in MarkerLists, r \in RowIds}
    \cup {SqlStmt(k, FALSE, <<>>, 1) : k \in {TypeCreateTable, TypeBegin, Pragma, Invalid}}

SqlTexts == UNION {[1..k -> SqlStmts] : k \in 0..MaxStmts}

\* The zero Statement with its source.
NewStmt(sql) ==
    [source |-> sql, typ |-> "", hasReturning |-> FALSE, parameters |-> <<>>,
     ddl |-> FALSE, statementCount |-> 0]

Contains(list, m) == \E i \in 1..Len(list) : list[i] = m

\* ExitExpr as it would be if the anonymous marker were deduplicated too.
ExitExprDedupsAll(parameters, m) ==
    IF ~Contains(parameters, m) THEN Append(parameters, m) ELSE parameters

\* sqlListener.ExitExpr for an expression that is the bind marker m.
ExitExpr(parameters, m) ==
    IF ~Contains(parameters, m) \/ m = "?"
    THEN Append(parameters, m)
    ELSE parameters

RECURSIVE ExitExprs(_, _)
ExitExprs(parameters, markers) ==
    IF markers = <<>> THEN parameters
    ELSE ExitExprs(ExitExpr(parameters, Head(markers)), Tail(markers))

\* sqlListener.ExitSql_stmt (and the Exit* of the DDL rules) for statement q.
ExitSql_stmt(s, q) ==
    [s EXCEPT
        !.statementCount = @ + 1,
        !.typ = IF q.rule = Pragma THEN TypeOther ELSE q.rule,
        !.hasReturning = IF q.rule \in DML THEN q.returning ELSE @,
        !.ddl = @ \/ q.rule = TypeCreateTable,
        !.parameters = ExitExprs(@, q.markers)]

\* Statement.parse: the listener over every statement of the text; a syntax
\* error anywhere is the error of the parse.
RECURSIVE parse(_, _)
parse(s, text) ==
    IF text = <<>> THEN [err |-> "", stmt |-> s]
    ELSE IF Head(text).rule = Invalid THEN [err |-> "syntax", stmt |-> s]
    ELSE parse(ExitSql_stmt(s, Head(text)), Tail(text))

\* strings.HasPrefix(strings.ToUpper(strings.TrimSpace(sql)), "BEGIN")
HasPrefixBegin(sql) == sql # <<>> /\ sql[1].rule = TypeBegin

\* NewStatement as it would be if the count were never looked at.
NewStatementAllowsMany(sql) ==
    IF HasPrefixBegin(sql)
    THEN [err |-> "", stmt |-> [NewStmt(sql) EXCEPT !.typ = TypeBegin]]
    ELSE LET p == parse(NewStmt(sql), sql)
         IN  IF p.err # "" THEN [err |-> p.err]
             ELSE [err |-> "", stmt |-> p.stmt]

\* NewStatement: the classifier.
NewStatement(sql) ==
    IF HasPrefixBegin(sql)
    THEN [err |-> "", stmt |-> [NewStmt(sql) EXCEPT !.typ = TypeBegin]]
    ELSE LET p == parse(NewStmt(sql), sql)
         IN  IF p.err # "" THEN [err |-> p.err]
             ELSE IF p.stmt.statementCount > 1 THEN [err |-> "multiple"]
             ELSE [err |-> "", stmt |-> p.stmt]

\* One call of the classifier.
Classify ==
    /\ ret = NotRun
    /\ arg.kind = "sql"
    /\ ret' = [kind |-> "statement", value |-> NewStatement(arg.sql)]
    /\ UNCHANGED <<arg, replVars, applyVars, snapVars, closeVars, regVars, sessVars, wireVars, dbsVars, schema>>

\* ------------------------------------------------------------------ pgwire
\* A completion tag: "<verb> <n>", or the verb alone (n = NoCount); the empty
\* query response is EmptyTag.
NoCount == -1
Tag(verb, n) == [verb |-> verb, n |-> n]
EmptyTag == Tag("", NoCount)

\* The Change a data statement of the text stands for.
ChangeOf(q) ==
    CASE q.rule = TypeInsert -> Change("INSERT", 0, q.row, 1)
      [] q.rule = TypeUpdate -> Change("UPDATE", q.row, q.row, 2)
      [] OTHER -> Change("DELETE", q.row, 0, 0)

\* sqlite.Exec: the query path for SELECT and for statements with RETURNING,
\* the exec path for the rest.  rows: the rows of the result set;
\* rowsAffected and noReturning as doExec sets them.
Exec(d, stmt) ==
    LET q == stmt.source[1]
        r == ExecStatement(d, ChangeOf(q))
    IN  IF stmt.typ = TypeSelect
        THEN [err |-> FALSE, db |-> d, noReturning |-> FALSE, rowsAffected |-> 0,
              rows |-> IF d[q.row] = Absent THEN 0 ELSE 1]
        ELSE IF stmt.typ \notin DML
        THEN [err |-> FALSE, db |-> d, noReturning |-> TRUE, rowsAffected |-> 0,
              rows |-> 0]
        ELSE IF r.err
        THEN [err |-> TRUE, db |-> d]
        ELSE IF stmt.hasReturning
        THEN [err |-> FALSE, db |-> r.db, noReturning |-> FALSE,
              rowsAffected |-> 0, rows |-> Len(r.pre)]
        ELSE [err |-> FALSE, db |-> r.db, noReturning |-> TRUE,
              rowsAffected |-> Len(r.pre), rows |-> 0]

\* handler (and handlerPrepared, which answers alike once the parameters are
\* bound): Exec and the completion tag.
handlerTag(stmt, resp) ==
    IF resp.noReturning
    THEN CASE stmt.typ = TypeInsert -> Tag("INSERT 0", resp.rowsAffected)
           [] stmt.typ = TypeDelete -> Tag("DELETE", resp.rowsAffected)
           [] stmt.typ = TypeUpdate -> Tag("UPDATE", resp.rowsAffected)
           [] stmt.typ # TypeOther -> Tag(stmt.typ, NoCount)
           [] OTHER -> EmptyTag
    ELSE Tag("SELECT", resp.rows)

\* parseFn for a session outside a transaction, on database d: classify,
\* answer BEGIN with the empty response, hand the rest to handler.
parseFn(sql, d) ==
    LET c == NewStatement(sql)
    IN  IF c.err # "" THEN [err |-> c.err, db |-> d]
        ELSE IF c.stmt.typ = TypeBegin
        THEN [err |-> "", db |-> d, tag |-> EmptyTag, rows |-> 0]
        ELSE IF c.stmt.statementCount = 0
        THEN [err |-> "", db |-> d, tag |-> EmptyTag, rows |-> 0]
        ELSE LET resp == Exec(d, c.stmt)
             IN  IF resp.err THEN [err |-> "exec", db |-> d]
                 ELSE [err |-> "", db |-> resp.db,
                       tag |-> handlerTag(c.stmt, resp), rows |-> resp.rows]

\* One simple query of a PostgreSQL-wire client.
Serve ==
    /\ ret = NotRun
    /\ arg.kind = "sql"
    /\ ret' = [kind |-> "reply", value |-> parseFn(arg.sql, arg.db)]
    /\ UNCHANGED <<arg, replVars, applyVars, snapVars, closeVars, regVars, sessVars, wireVars, dbsVars, schema>>

\* The databases a query is served on.
ServedDBs == [RowIds -> {Absent, 1}]

InitStatement ==
    /\ InitRest
    /\ arg \in {[kind |-> "sql", sql |-> s, db |-> d] : s \in SqlTexts, d \in ServedDBs}
    /\ ret = NotRun

\* SQL text given to the classifier, or sent as a query over the
\* PostgreSQL wire.
NextStatement == Classify \/ Serve

SpecStatement == InitStatement /\ [][NextStatement]_vars

\* ------------------------------------------------------------------ prepared
\* The bind markers of a prepared statement: $n, :name, @name and ?.
PreparedMarkers == {"$1", "$2", "$3", ":x", "@y", "?"}
PreparedLists == UNION {[1..k -> PreparedMarkers] : k \in 1..MaxPrepared}

\* k[0] and k[1:] of a marker.
FirstByte(k) ==
    CASE k \in {"$1", "$2", "$3"} -> "$"
      [] k = ":x" -> ":"
      [] k = "@y" -> "@"
      [] OTHER -> "?"
Rest(k) ==
    CASE k = "$1" -> "1"
      [] k = "$2" -> "2"
      [] k = "$3" -> "3"
      [] k = ":x" -> "x"
      [] k = "@y" -> "y"
      [] OTHER -> ""

\* fmt.Sprintf("$%d", i)
Dollar(i) ==
    CASE i = 1 -> "$1"
      [] i = 2 -> "$2"
      [] i = 3 -> "$3"
      [] OTHER -> "$n"

\* The value of a parameter that nothing was bound to: NULL.
Unbound == 0

\* The values the protocol supplies: the i-th one is i.
Values(n) == [i \in 1..n |-> i]

\* The loop at the head of handle in handlerPrepared:
\* params[bindParameters[i]] = value, a later value for the same key
\* replacing the earlier one.
handle(bindParameters, values) ==
    [k \in {bindParameters[i] : i \in 1..Len(bindParameters)} |->
        values[CHOOSE i \in 1..Len(bindParameters) :
                  /\ bindParameters[i] = k
                  /\ \A j \in 1..Len(bindParameters) :
                        bindParameters[j] = k => j <= i]]

isPositional(r) == r = "$"

\* getPositionalArgs: as many arguments as the map has keys, the i-th one
\* the value under "$i", nil when there is none.
getPositionalArgs(params) ==
    [i \in 1..Cardinality(DOMAIN params) |->
        IF Dollar(i) \in DOMAIN params
        THEN [name |-> "", value |-> params[Dollar(i)]]
        ELSE [name |-> "", value |-> Unbound]]

\* sql.Named(k, v) for every key, the sigil cut off keys longer than one byte.
getNamedArgs(params) ==
    {[name |-> IF Rest(k) # "" THEN Rest(k) ELSE k, value |-> params[k]] :
        k \in DOMAIN params}

\* getArgs: the first key the range over the map yields decides between
\* positional and named arguments.
getArgs(params, firstKey) ==
    IF isPositional(FirstByte(firstKey))
    THEN [positional |-> TRUE, list |-> getPositionalArgs(params)]
    ELSE [positional |-> FALSE, named |-> getNamedArgs(params)]

\* The driver binds the arguments: SQLite numbers the parameters of the
\* statement as the classifier lists them; an argument without a name goes
\* to the parameter of its ordinal, a named one to the parameter :name,
\* @name or $name.
Bind(bindParameters, args) ==
    [i \in 1..Len(bindParameters) |->
        IF args.positional
        THEN IF i <= Len(args.list) THEN args.list[i].value ELSE Unbound
        ELSE LET k == bindParameters[i]
                 hit == {a \in args.named :
                            FirstByte(k) \in {":", "@", "$"} /\ a.name = Rest(k)}
             IN  IF hit = {} THEN Unbound ELSE (CHOOSE a \in hit : TRUE).value]

\* handlerPrepared's handle for a statement with the given bind markers.
Prepared ==
    /\ ret = NotRun
    /\ arg.kind = "prepared"
    /\ LET bindParameters == ExitExprs(<<>>, arg.markers)
           params == handle(bindParameters, Values(Len(bindParameters)))
       IN  ret' = [kind |-> "bound",
                   parameters |-> bindParameters,
                   value |-> Bind(bindParameters, getArgs(params, arg.first))]
    /\ UNCHANGED <<arg, replVars, applyVars, snapVars, closeVars, regVars,
                   sessVars, wireVars, dbsVars, schema>>

InitPrepared ==
    /\ InitRest
    /\ arg \in {[kind |-> "prepared", markers |-> m, first |-> k] :
                    m \in PreparedLists, k \in PreparedMarkers}
    /\ \E i \in 1..Len(arg.markers) : arg.markers[i] = arg.first
    /\ ret = NotRun

SpecPrepared == InitPrepared /\ [][Prepared]_vars

\* ------------------------------------------------------------------ interceptor
\* The nil error, and the error of a failed Apply.
NoError == ""
ApplyErrors == {NoError, "test"}

\* The Command text of the changes of a ChangeSet.
Commands == {"ALTER TABLE test", "  alter table test", "INSERT INTO test", ""}
CommandLists == UNION {[1..k -> Commands] : k \in 0..MaxCommands}

\* strings.ToUpper(strings.TrimSpace(command))
TrimUpper(command) ==
    CASE command = "ALTER TABLE test" -> "ALTER TABLE TEST"
      [] command = "  alter table test" -> "ALTER TABLE TEST"
      [] command = "INSERT INTO test" -> "INSERT INTO TEST"
      [] OTHER -> ""

\* strings.HasPrefix(s, "ALTER TABLE")
HasPrefixAlterTable(s) == s = "ALTER TABLE TEST"

\* noopAfter as it would be if it dropped the error.
noopAfterSwallows(cs, err) == NoError

\* noopAfter: the error as it came.
noopAfter(cs, err) == err

\* After of the script ignore_alter_table_errors.go.
After(cs, err) ==
    IF err # NoError
       /\ \E i \in 1..Len(cs) : HasPrefixAlterTable(TrimUpper(cs[i]))
    THEN NoError
    ELSE err

\* The functions a script can define: Before, After, both or none.
Scripts == [before : BOOLEAN, after : BOOLEAN]
NilInterceptor == [nil |-> TRUE]

\* Load and newInterceptor: no interceptor when the script defines neither
\* function, the no-op for the one it does not define.
newInterceptor(script) ==
    IF ~script.before /\ ~script.after
    THEN NilInterceptor
    ELSE [nil |-> FALSE,
          before |-> IF script.before THEN "Before" ELSE "noopBefore",
          after |-> IF script.after THEN "After" ELSE "noopAfter"]

\* baseInterceptor.AfterApply
AfterApply(i, cs, err) ==
    IF i.after = "After" THEN After(cs, err) ELSE noopAfter(cs, err)

\* The gateway around the applier: the error of AfterApply replaces the
\* applier's, and the message is acked when no error is left.
Gateway(i, cs, err) ==
    LET final == IF i = NilInterceptor THEN err ELSE AfterApply(i, cs, err)
    IN  [err |-> final, acked |-> final = NoError]

\* One ChangeSet through the gateway, the applier having returned arg.err.
Intercept ==
    /\ ret = NotRun
    /\ arg.kind = "changeset"
    /\ ret' = [kind |-> "gateway",
               value |-> Gateway(newInterceptor(arg.script), arg.cs, arg.err)]
    /\ UNCHANGED <<arg, replVars, applyVars, snapVars, closeVars, regVars, sessVars, wireVars, dbsVars, schema>>

InitIntercept ==
    /\ InitRest
    /\ arg \in {[kind |-> "changeset", cs |-> cs, err |-> e, script |-> s] :
                    cs \in CommandLists, e \in ApplyErrors, s \in Scripts}
    /\ ret = NotRun

SpecIntercept == InitIntercept /\ [][Intercept]_vars

\* ------------------------------------------------------------------ DDL
\* The DDL statements of the clients, by number.
DDLTexts == 1..MaxDDL

\* AddSQLChange: the statement as a Change with operation "SQL" in the
\* ChangeSet of the connection.
AddSQLChange(c, text) == [c EXCEPT !.cs = Append(c.cs, Change("SQL", 0, 0, text))]

\* A DDL statement on connection c of node n, DDL sync not disabled, in its
\* own transaction: the statement runs, AddSQLChange records it, the commit
\* hook publishes the ChangeSet and an aborted commit undoes the statement.
ClientDDL(n, c, text, outcome) ==
    /\ tx[n] = NoTx
    /\ Len(stream) < MaxTxns
    /\ text \notin schema[n]
    /\ LET h == CommitHook(AddSQLChange(conn[n][c], text), stream, n,
                           processID[n], 0, outcome)
       IN  /\ stream' = h.stream
           /\ IF h.rc = 0
              THEN /\ schema' = [schema EXCEPT ![n] = @ \cup {text}]
                   /\ conn' = [conn EXCEPT ![n][c] = h.conn]
              ELSE /\ schema' = schema
                   /\ conn' = [conn EXCEPT ![n][c] = RollbackHook(h.conn)]
    /\ UNCHANGED <<db, tx, processID, restarts, delivered, acked, streamSeq,
                   applied, txlog, applyVars, snapVars, fnVars, closeVars, regVars, sessVars, wireVars, dbsVars>>

\* Clients that change the schema, and the subscribers.  ChangeSet.Apply has
\* no statement for a Change with operation "SQL", so no delivery changes a
\* schema.
NextDDL ==
    \/ \E n \in Nodes, c \in Conns, text \in DDLTexts, o \in PubOutcomes :
            ClientDDL(n, c, text, o)
    \/ \E n \in Nodes, s \in 1..Len(stream), c \in Conns, ok \in BOOLEAN :
            Handler(n, s, c, ok)

SpecDDL == Init /\ [][NextDDL]_vars

\* ------------------------------------------------------------------ Close
\* The consumer of node n hands message s to the handler, which starts to
\* work on it: callbacks of one consumer run one at a time.
HandlerBegins(n, s) ==
    /\ subState[n] = "open"
    /\ running[n] = 0
    /\ s \in 1..Len(stream)
    /\ s <= delivered[n] + 1
    /\ s \notin acked[n]
    /\ running' = [running EXCEPT ![n] = s]
    /\ delivered' = [delivered EXCEPT ![n] = IF s > @ THEN s ELSE @]
    /\ UNCHANGED <<db, conn, tx, processID, restarts, stream, acked, streamSeq,
                   applied, txlog, applyVars, snapVars, fnVars, subState,
                   closed, schema, regVars, sessVars, wireVars, dbsVars>>

\* The handler at work on node n comes to its end: filter, Apply on pooled
\* connection c, ack.  An ack on a connection that is closed fails.
HandlerEnds(n, c, ackOk) ==
    /\ running[n] # 0
    /\ tx[n] # NoTx => tx[n].conn # c
    /\ subState[n] = "closed" => ~ackOk
    /\ LET s == running[n]
           h == handler(n, s, c, ackOk)
       IN  /\ db' = [db EXCEPT ![n] = h.db]
           /\ conn' = [conn EXCEPT ![n][c] = h.conn]
           /\ stream' = h.stream
           /\ acked' = [acked EXCEPT ![n] = h.sub.acked]
           /\ streamSeq' = [streamSeq EXCEPT ![n] = h.sub.streamSeq]
           /\ applied' = [applied EXCEPT ![n] = IF h.handed THEN @ \cup {s} ELSE @]
    /\ running' = [running EXCEPT ![n] = 0]
    /\ UNCHANGED <<tx, processID, restarts, delivered, txlog, applyVars,
                   snapVars, fnVars, subState, closed, schema, regVars, sessVars, wireVars, dbsVars>>

\* CDCSubscriber.Close: nc.Drain() on a connection that is not closed.
\* Drain puts the connection into the draining state, leaves the rest to a
\* goroutine and returns.
Close(n) ==
    /\ ~closed[n]
    /\ closed' = [closed EXCEPT ![n] = TRUE]
    /\ subState' = [subState EXCEPT ![n] = IF @ = "open" THEN "draining" ELSE @]
    /\ UNCHANGED <<replVars, applyVars, snapVars, fnVars, running, schema,
                   regVars, sessVars, wireVars, dbsVars>>

\* The goroutine of Drain: the subscriptions drained or the drain timeout
\* over (timedOut), the connection is closed.
DrainEnds(n, timedOut) ==
    /\ subState[n] = "draining"
    /\ running[n] = 0 \/ timedOut
    /\ subState' = [subState EXCEPT ![n] = "closed"]
    /\ UNCHANGED <<replVars, applyVars, snapVars, fnVars, running, closed,
                   schema, regVars, sessVars, wireVars, dbsVars>>

\* Subscribers that are closed while the cluster runs, with at most
\* CloseTxns short client transactions.
NextClose ==
    \/ /\ \/ \E n \in Nodes, c \in Conns, st \in Statements(Len(txlog) + 1) :
                 ClientExec(n, c, st)
          \/ \E n \in Nodes, o \in PubOutcomes : ClientCommit(n, o)
       /\ ShortTxns'
       /\ Len(txlog') <= CloseTxns
    \/ \E n \in Nodes, s \in 1..Len(stream) : HandlerBegins(n, s)
    \/ \E n \in Nodes, c \in Conns, ok \in BOOLEAN : HandlerEnds(n, c, ok)
    \/ \E n \in Nodes : Close(n)
    \/ \E n \in Nodes, timedOut \in BOOLEAN : DrainEnds(n, timedOut)

SpecClose == Init /\ [][NextClose]_vars

\* ------------------------------------------------------------------ registry
\* How a Load finds the object store: "dsn" without --from-latest-snapshot,
\* "snapshot" with a snapshot in the store, "nosnapshot" with
\* jetstream.ErrObjectNotFound, "snaperr" with any other error.
LoadOptions == {"dsn", "snapshot", "nosnapshot", "snaperr"}

\* Databases(): the keys of the map but the empty one.
Databases == {k \in Keys : dbs[k] # NoEntry /\ k # ""}

\* DB(id) and Connector(id): the entry under the key, an error without one.
DB(id) == IF dbs[id] = NoEntry THEN [err |-> TRUE] ELSE [err |-> FALSE, obj |-> dbs[id]]

\* The session thread leaves its operation; the deferred Unlock runs.
Return(t) ==
    /\ thr' = [thr EXCEPT ![t] = Idle]
    /\ muDBs' = IF muDBs = t THEN "free" ELSE muDBs

\* Load, CREATE DATABASE on session t: muDBs.Lock().
LoadBegin(t, id, opt) ==
    /\ thr[t] = Idle
    /\ muDBs = "free"
    /\ Len(ent) < MaxLoads
    /\ muDBs' = t
    /\ thr' = [thr EXCEPT ![t] = [op |-> "Load", id |-> id, pc |-> "locked",
                                   obj |-> 0, opt |-> opt, def |-> FALSE]]
    /\ UNCHANGED <<dbs, ent, replVars, applyVars, snapVars, fnVars, closeVars,
                   schema, regVars, sessVars, wireVars>>

\* Load from the duplicate check to sql.OpenDB and the SetDB calls.  With
\* ErrObjectNotFound the reader is nil and no branch makes a connector:
\* connector.Subscriber() on the nil connector panics, or (nilSafe) answers
\* nil and the entry is made with the nil connector.
LoadOpen(t, nilSafe) ==
    /\ thr[t].op = "Load"
    /\ thr[t].pc = "locked"
    /\ LET id == thr[t].id
           defaultDB == \A k \in Keys : dbs[k] = NoEntry
           connector == IF thr[t].opt = "nosnapshot" THEN "nil" ELSE "open"
       IN  IF dbs[id] # NoEntry \/ thr[t].opt = "snaperr"
              \/ (connector = "nil" /\ ~nilSafe)
           THEN /\ Return(t)
                /\ UNCHANGED <<dbs, ent>>
           ELSE /\ ent' = Append(ent, [id |-> id, connector |-> connector,
                                       pool |-> "open"])
                /\ thr' = [thr EXCEPT ![t].pc = "writing",
                                      ![t].obj = Len(ent) + 1,
                                      ![t].def = defaultDB]
                /\ UNCHANGED <<dbs, muDBs>>
    /\ UNCHANGED <<replVars, applyVars, snapVars, fnVars, closeVars, schema,
                   regVars, sessVars, wireVars>>

\* Load: dbs[id] = connDB, dbs[""] = connDB for the default, return.
LoadWrite(t) ==
    /\ thr[t].op = "Load"
    /\ thr[t].pc = "writing"
    /\ dbs' = [dbs EXCEPT ![thr[t].id] = thr[t].obj,
                          ![""] = IF thr[t].def THEN thr[t].obj ELSE @]
    /\ Return(t)
    /\ UNCHANGED <<ent, replVars, applyVars, snapVars, fnVars, closeVars,
                   schema, regVars, sessVars, wireVars>>

\* Drop, DROP DATABASE on session t: muDBs.Lock().
DropBegin(t, id) ==
    /\ thr[t] = Idle
    /\ muDBs = "free"
    /\ muDBs' = t
    /\ thr' = [thr EXCEPT ![t] = [op |-> "Drop", id |-> id, pc |-> "locked",
                                   obj |-> 0, opt |-> "", def |-> FALSE]]
    /\ UNCHANGED <<dbs, ent, replVars, applyVars, snapVars, fnVars, closeVars,
                   schema, regVars, sessVars, wireVars>>

\* Drop from the lookup to connector.Close(); fileErr: the query for the
\* file name of the database fails.
DropLookup(t, fileErr) ==
    /\ thr[t].op = "Drop"
    /\ thr[t].pc = "locked"
    /\ IF dbs[thr[t].id] = NoEntry \/ fileErr
       THEN /\ Return(t)
            /\ UNCHANGED ent
       ELSE /\ ent' = [ent EXCEPT ![dbs[thr[t].id]].connector = "closed"]
            /\ thr' = [thr EXCEPT ![t].pc = "writing", ![t].obj = dbs[thr[t].id]]
            /\ UNCHANGED muDBs
    /\ UNCHANGED <<dbs, replVars, applyVars, snapVars, fnVars, closeVars,
                   schema, regVars, sessVars, wireVars>>

\* Drop: delete(dbs, id), return.
DropDelete(t) ==
    /\ thr[t].op = "Drop"
    /\ thr[t].pc = "writing"
    /\ dbs' = [dbs EXCEPT ![thr[t].id] = NoEntry]
    /\ Return(t)
    /\ UNCHANGED <<ent, replVars, applyVars, snapVars, fnVars, closeVars,
                   schema, regVars, sessVars, wireVars>>

\* A wire handler starts to read the map in DB, Connector or Databases; it
\* takes no lock.
ReadBegin(t, fn, id) ==
    /\ thr[t] = Idle
    /\ thr' = [thr EXCEPT ![t] = [op |-> fn, id |-> id, pc |-> "reading",
                                   obj |-> 0, opt |-> "", def |-> FALSE]]
    /\ UNCHANGED <<dbs, muDBs, ent, replVars, applyVars, snapVars, fnVars,
                   closeVars, schema, regVars, sessVars, wireVars>>

\* The read is over.
ReadEnd(t) ==
    /\ thr[t].pc = "reading"
    /\ thr' = [thr EXCEPT ![t] = Idle]
    /\ UNCHANGED <<dbs, muDBs, ent, replVars, applyVars, snapVars, fnVars,
                   closeVars, schema, regVars, sessVars, wireVars>>

\* The sessions of the wire servers at work on the registry.
NextRegistry ==
    \/ \E t \in Threads, id \in Ids, opt \in LoadOptions : LoadBegin(t, id, opt)
    \/ \E t \in Threads, nilSafe \in BOOLEAN : LoadOpen(t, nilSafe)
    \/ \E t \in Threads : LoadWrite(t)
    \/ \E t \in Threads, id \in Keys : DropBegin(t, id)
    \/ \E t \in Threads, fileErr \in BOOLEAN : DropLookup(t, fileErr)
    \/ \E t \in Threads : DropDelete(t)
    \/ \E t \in Threads, fn \in {"DB", "Connector", "Databases"}, id \in Keys :
            ReadBegin(t, fn, id)
    \/ \E t \in Threads : ReadEnd(t)

SpecRegistry == Init /\ [][NextRegistry]_vars

\* ------------------------------------------------------------------ sessions
\* The statements a wire client sends.
WireQueries == {"BEGIN", "COMMIT", "ROLLBACK", "INSERT"}

\* A client connects to the PostgreSQL server (the server's database is
\* selected) or to the MySQL server (a new Handler: db and tx nil).
Connect(t, server) ==
    /\ sess[t] = NoSession
    /\ sess' = [sess EXCEPT ![t] = [server |-> server, alive |-> TRUE,
                                     db |-> server = "pg", tx |-> "nil", res |-> ""]]
    /\ UNCHANGED <<held, replVars, applyVars, snapVars, fnVars, closeVars,
                   schema, regVars, sessVars, dbsVars>>

\* Handler.UseDB: the provider knows the database (ok) or not.
UseDB(t, ok) ==
    /\ sess[t].alive
    /\ sess[t].server = "mysql"
    /\ sess' = [sess EXCEPT ![t].db = @ \/ ok, ![t].res = "ok"]
    /\ UNCHANGED <<held, replVars, applyVars, snapVars, fnVars, closeVars,
                   schema, regVars, sessVars, dbsVars>>

\* sql.Tx.Commit and sql.Tx.Rollback: ErrTxDone on a transaction that is
\* over; otherwise the transaction is over and its connection back in the
\* pool, whether the driver reports an error (fail) or not.
TxEnd(heldNow, fail) ==
    [err |-> heldNow = "none" \/ fail, held |-> "none"]

\* Handler.exec: s the handler, heldNow the state of its sql.Tx, fail an
\* error of the driver.  After h.tx = tx the BEGIN branch does not return:
\* the text BEGIN goes on to h.tx.Exec, inside the transaction that
\* h.db.Begin has opened, where the engine refuses it.
exec(s, heldNow, query, fail) ==
    CASE query = "BEGIN" ->
           IF s.tx # "nil" \/ ~s.db \/ fail
           THEN [s |-> [s EXCEPT !.res = "err"], held |-> heldNow]
           ELSE [s |-> [s EXCEPT !.tx = "set", !.res = "err"], held |-> "open"]
      [] query \in {"COMMIT", "ROLLBACK"} ->
           IF s.tx = "nil"
           THEN [s |-> [s EXCEPT !.res = "err"], held |-> heldNow]
           ELSE LET e == TxEnd(heldNow, fail)
                IN  IF e.err
                    THEN [s |-> [s EXCEPT !.res = "err"], held |-> e.held]
                    ELSE [s |-> [s EXCEPT !.tx = "nil", !.res = "ok"], held |-> e.held]
      [] OTHER ->
           IF s.tx # "nil"
           THEN [s |-> [s EXCEPT !.res = IF heldNow = "none" \/ fail
                                         THEN "err" ELSE "ok"],
                 held |-> heldNow]
           ELSE [s |-> [s EXCEPT !.res = IF ~s.db \/ fail THEN "err" ELSE "ok"],
                 held |-> heldNow]

\* HandleQuery on the MySQL session t for a statement that goes to exec.
HandleQuery(t, query, fail) ==
    /\ sess[t].alive
    /\ sess[t].server = "mysql"
    /\ LET r == exec(sess[t], held[t], query, fail)
       IN  /\ sess' = [sess EXCEPT ![t] = r.s]
           /\ held' = [held EXCEPT ![t] = r.held]
    /\ UNCHANGED <<replVars, applyVars, snapVars, fnVars, closeVars, schema,
                   regVars, sessVars, dbsVars>>

\* The MySQL session ends: HandleCommand returns an error, the goroutine of
\* ListenAndServe returns and the deferred c.Close() runs.
MySessionEnds(t) ==
    /\ sess[t].alive
    /\ sess[t].server = "mysql"
    /\ sess' = [sess EXCEPT ![t].alive = FALSE]
    /\ UNCHANGED <<held, replVars, applyVars, snapVars, fnVars, closeVars,
                   schema, regVars, sessVars, dbsVars>>

\* begin, commit and rollback of the PostgreSQL server on the transaction
\* attribute of session t.
begin(s, heldNow, fail) ==
    IF s.tx # "nil" THEN [s |-> [s EXCEPT !.res = "ok"], held |-> heldNow]
    ELSE IF fail THEN [s |-> [s EXCEPT !.res = "err"], held |-> heldNow]
    ELSE [s |-> [s EXCEPT !.tx = "set", !.res = "ok"], held |-> "open"]

commit(s, heldNow, fail) ==
    IF s.tx = "nil" THEN [s |-> [s EXCEPT !.res = "ok"], held |-> heldNow]
    ELSE LET e == TxEnd(heldNow, fail)
         IN  [s |-> [s EXCEPT !.tx = "nil", !.res = IF e.err THEN "err" ELSE "ok"],
              held |-> e.held]

rollback(s, heldNow, fail) == commit(s, heldNow, fail)

\* parseFn of the PostgreSQL server for BEGIN, COMMIT and ROLLBACK.
PgStatement(t, query, fail) ==
    /\ sess[t].alive
    /\ sess[t].server = "pg"
    /\ query \in {"BEGIN", "COMMIT", "ROLLBACK"}
    /\ LET r == CASE query = "BEGIN" -> begin(sess[t], held[t], fail)
                  [] query = "COMMIT" -> commit(sess[t], held[t], fail)
                  [] OTHER -> rollback(sess[t], held[t], fail)
       IN  /\ sess' = [sess EXCEPT ![t] = r.s]
           /\ held' = [held EXCEPT ![t] = r.held]
    /\ UNCHANGED <<replVars, applyVars, snapVars, fnVars, closeVars, schema,
                   regVars, sessVars, dbsVars>>

\* Server.terminateConn: rollback(ctx).
terminateConn(t, fail) ==
    /\ sess[t].alive
    /\ sess[t].server = "pg"
    /\ LET r == rollback(sess[t], held[t], fail)
       IN  /\ sess' = [sess EXCEPT ![t] = [r.s EXCEPT !.alive = FALSE]]
           /\ held' = [held EXCEPT ![t] = r.held]
    /\ UNCHANGED <<replVars, applyVars, snapVars, fnVars, closeVars, schema,
                   regVars, sessVars, dbsVars>>

\* The sessions of the two wire servers.
NextSession ==
    \/ \E t \in Threads, server \in {"pg", "mysql"} : Connect(t, server)
    \/ \E t \in Threads, ok \in BOOLEAN : UseDB(t, ok)
    \/ \E t \in Threads, q \in WireQueries, fail \in BOOLEAN : HandleQuery(t, q, fail)
    \/ \E t \in Threads : MySessionEnds(t)
    \/ \E t \in Threads, q \in WireQueries, fail \in BOOLEAN : PgStatement(t, q, fail)
    \/ \E t \in Threads, fail \in BOOLEAN : terminateConn(t, fail)

SpecSession == Init /\ [][NextSession]_vars

\* ------------------------------------------------------------------ savepoints
\* SAVEPOINT inside the open transaction of node n: the engine remembers the
\* database; len is the number of row changes the transaction holds so far.
Savepoint(n) ==
    /\ tx[n] # NoTx
    /\ savepoint[n] = NoSave
    /\ savepoint' = [savepoint EXCEPT ![n] =
           [id |-> tx[n].id, db |-> db[n], len |-> Len(txlog[tx[n].id].changes)]]
    /\ UNCHANGED <<replVars, applyVars, snapVars, fnVars, closeVars, schema,
                   regVars, dbsVars, wireVars>>

\* ROLLBACK TO the savepoint: the engine undoes the row changes made since;
\* it calls none of the three hooks.
RollbackTo(n) ==
    /\ tx[n] # NoTx
    /\ savepoint[n].id = tx[n].id
    /\ db' = [db EXCEPT ![n] = savepoint[n].db]
    /\ txlog' = [txlog EXCEPT ![tx[n].id].changes = SubSeq(@, 1, savepoint[n].len)]
    /\ savepoint' = [savepoint EXCEPT ![n] = NoSave]
    /\ UNCHANGED <<conn, tx, processID, restarts, stream, delivered, acked,
                   streamSeq, applied, applyVars, snapVars, fnVars, closeVars,
                   schema, regVars, dbsVars, wireVars>>

\* A statement of the open transaction that fails part-way: the engine has
\* called the pre-update hook for the rows it changed before the error and
\* undoes these changes with the statement; it calls no rollback hook.
ExecFailsPartWay(n, c, st) ==
    /\ tx[n] # NoTx
    /\ tx[n].conn = c
    /\ Len(conn[n][c].cs) < MaxChanges
    /\ st \in Statements(tx[n].id)
    /\ LET r == ExecStatement(db[n], st)
       IN  /\ ~r.err
           /\ r.pre # <<>>
           /\ conn' = [conn EXCEPT ![n][c] = PreUpdateHook(@, r.pre)]
    /\ txlog' = [txlog EXCEPT ![tx[n].id].failed = TRUE]
    /\ UNCHANGED <<db, tx, processID, restarts, stream, delivered, acked,
                   streamSeq, applied, applyVars, snapVars, fnVars, closeVars,
                   schema, regVars, sessVars, wireVars, dbsVars>>

\* A statement of the open transaction whose row change reaches the
\* pre-update hook while conn.Query for the columns of the table fails: the
\* hook returns before cs.AddChange.
ExecColumnsUnread(n, c, st) ==
    /\ tx[n] # NoTx
    /\ tx[n].conn = c
    /\ Len(txlog[tx[n].id].changes) < MaxChanges
    /\ st \in Statements(tx[n].id)
    /\ LET r == ExecStatement(db[n], st)
       IN  /\ ~r.err
           /\ r.pre # <<>>
           /\ db' = [db EXCEPT ![n] = r.db]
           /\ txlog' = [txlog EXCEPT ![tx[n].id].changes = @ \o r.pre]
    /\ UNCHANGED <<conn, tx, processID, restarts, stream, delivered, acked,
                   streamSeq, applied, applyVars, snapVars, fnVars, closeVars,
                   schema, regVars, sessVars, wireVars, dbsVars>>

\* Client transactions with savepoints and failing statements, at most
\* SaveTxns of them.
NextSavepoint ==
    \/ /\ \/ \E n \in Nodes, c \in Conns, st \in Statements(Len(txlog) + 1) :
                 ClientExec(n, c, st)
          \/ \E n \in Nodes, o \in PubOutcomes : ClientCommit(n, o)
          \/ \E n \in Nodes : ClientRollback(n)
       /\ Len(txlog') <= SaveTxns
       /\ \A n \in Nodes, c \in Conns : Len(conn'[n][c].cs) <= MaxChanges
    \/ \E n \in Nodes : Savepoint(n)
    \/ \E n \in Nodes : RollbackTo(n)
    \/ \E n \in Nodes, c \in Conns, st \in Statements(Len(txlog)) :
            ExecFailsPartWay(n, c, st)
    \/ \E n \in Nodes, c \in Conns, st \in Statements(Len(txlog)) :
            ExecColumnsUnread(n, c, st)

SpecSavepoint == Init /\ [][NextSavepoint]_vars

\* ------------------------------------------------------------------ shutdown
\* sqlite.Close, first statement of the loop body: connDB.db.Close().
CloseDB(n) ==
    /\ shut[n] = "up"
    /\ pool' = [pool EXCEPT ![n] = "closed"]
    /\ shut' = [shut EXCEPT ![n] = "pool"]
    /\ UNCHANGED <<replVars, applyVars, snapVars, fnVars, closeVars, schema,
                   pubState, sessVars, wireVars, dbsVars>>

\* sqlite.Close, second statement of the loop body: connDB.connector.Close(),
\* which closes the publisher and drains the subscriber of the connector.
CloseConnector(n) ==
    /\ shut[n] = "pool"
    /\ pubState' = [pubState EXCEPT ![n] = "closed"]
    /\ subState' = [subState EXCEPT ![n] = IF @ = "open" THEN "draining" ELSE @]
    /\ closed' = [closed EXCEPT ![n] = TRUE]
    /\ shut' = [shut EXCEPT ![n] = "done"]
    /\ UNCHANGED <<replVars, applyVars, snapVars, fnVars, running, schema, pool,
                   sessVars, wireVars, dbsVars>>

\* The handler at work comes to its end while the process shuts down: on a
\* closed pool Apply of a remote ChangeSet fails and nothing is acknowledged.
ShutHandlerEnds(n, c, ackOk) ==
    /\ running[n] # 0
    /\ IF pool[n] = "open" \/ stream[running[n]].node = n
       THEN HandlerEnds(n, c, ackOk)
       ELSE /\ running' = [running EXCEPT ![n] = 0]
            /\ UNCHANGED <<replVars, applyVars, snapVars, fnVars, subState,
                           closed, schema, regVars, sessVars, wireVars, dbsVars>>

\* The process receives SIGTERM while clients and subscribers are at work,
\* with at most ShutTxns short client transactions.
NextShutdown ==
    \/ /\ \/ \E n \in Nodes, c \in Conns, st \in Statements(Len(txlog) + 1) :
                 pool[n] = "open" /\ ClientExec(n, c, st)
          \/ \E n \in Nodes, o \in PubOutcomes : ClientCommit(n, o)
       /\ ShortTxns'
       /\ Len(txlog') <= ShutTxns
    \/ \E n \in Nodes, s \in 1..Len(stream) : HandlerBegins(n, s)
    \/ \E n \in Nodes, c \in Conns, ok \in BOOLEAN : ShutHandlerEnds(n, c, ok)
    \/ \E n \in Nodes : CloseDB(n)
    \/ \E n \in Nodes : CloseConnector(n)
    \/ \E n \in Nodes, timedOut \in BOOLEAN : DrainEnds(n, timedOut)

SpecShutdown == Init /\ [][NextShutdown]_vars

\* ------------------------------------------------------------------ replay
\* ChangeSet.Apply as a function: every ChangeSet of at most MaxChanges
\* changes against every database, applied twice in a row.
Changes ==
    UNION {{Change("INSERT", 0, r, v) : r \in ReplayRowIds}
           \cup {Change("UPDATE", o, r, v) : o \in ReplayRowIds, r \in ReplayRowIds}
           \cup {Change("DELETE", o, 0, 0) : o \in ReplayRowIds} : v \in 1..MaxTxns}

\* The statements cs run on database d at an origin and the pre-update hook
\* captures exactly cs.
RECURSIVE Captures(_, _)
Captures(d, cs) ==
    IF cs = <<>>
    THEN TRUE
    ELSE LET r == ExecStatement(d, Head(cs))
         IN  ~r.err /\ r.pre = <<Head(cs)>> /\ Captures(r.db, Tail(cs))

\* The ChangeSets a transaction of some origin can publish.
ChangeSets ==
    {cs \in UNION {[1..k -> Changes] : k \in 1..MaxChanges} :
        \E d \in [ReplayRowIds -> 0..MaxTxns] : Captures(d, cs)}

InitReplay ==
    /\ db = [n \in Nodes |-> EmptyDB]
    /\ conn = [n \in Nodes |-> [c \in Conns |-> FreshConn]]
    /\ tx = [n \in Nodes |-> NoTx]
    /\ processID = [n \in Nodes |-> 1]
    /\ restarts = 0
    /\ stream = <<>>
    /\ delivered = [n \in Nodes |-> 0]
    /\ acked = [n \in Nodes |-> {}]
    /\ streamSeq = [n \in Nodes |-> 0]
    /\ applied = [n \in Nodes |-> {}]
    /\ txlog = <<>>
    /\ acs \in ChangeSets
    /\ adb \in [ReplayRowIds -> 0..MaxTxns]
    /\ first = adb
    /\ runs = 0
    /\ prev = adb
    /\ aerr = FALSE
    /\ InitSnapshotter
    /\ InitIdle

\* One more delivery of the ChangeSet: cs.Apply() on the database as it is.
Replay ==
    /\ runs < 2
    /\ LET a == Apply(adb, FreshConn, stream, "A", 1, acs, FALSE)
       IN  /\ adb' = a.db
           /\ first' = IF runs = 0 THEN a.db ELSE first
           /\ aerr' = a.err
    /\ prev' = adb
    /\ runs' = runs + 1
    /\ UNCHANGED <<acs, replVars, snapVars, fnVars, closeVars, regVars, sessVars, wireVars, dbsVars, schema>>

NextReplay == Replay

SpecReplay == InitReplay /\ [][NextReplay]_vars

\* ------------------------------------------------------------------ properties
Seqs == 1..Len(stream)

\* The stored ChangeSets that carry the commit time of transaction t.
PublishedOf(t) == {s \in Seqs : stream[s].ts = t}

\* Nothing is in flight: no open transaction, every consumer has acknowledged
\* the whole stream.
Quiescent ==
    /\ \A n \in Nodes : tx[n] = NoTx
    /\ \A n \in Nodes : acked[n] = Seqs

\* No Publish of the run returned an error.
CleanRun == \A t \in 1..Len(txlog) : txlog[t].pub # "err"

\* C1: a committed transaction that captured changes has exactly one
\* ChangeSet in the stream, with its changes in capture order; a transaction
\* that was rolled back (by ROLLBACK or by an aborted commit) has none.
C1_OneChangeSetPerCommit ==
    \A t \in 1..Len(txlog) :
        /\ (txlog[t].res = "ok" /\ txlog[t].changes # <<>>) =>
              /\ Cardinality(PublishedOf(t)) = 1
              /\ \A s \in PublishedOf(t) :
                    /\ stream[s].changes = txlog[t].changes
                    /\ stream[s].node = txlog[t].node
        /\ txlog[t].res \in {"error", "rolledback"} => PublishedOf(t) = {}

\* C2: replaying remote ChangeSets publishes nothing, so the stream never
\* holds more ChangeSets than client transactions were committed.
C2_LogWithinCommits ==
    Len(stream) <= Cardinality({t \in 1..Len(txlog) : txlog[t].res = "ok"})

\* The replay itself leaves the stream as it is (the part of C2 that the code
\* keeps): no handler call appends to the stream.
ReplayPublishesNothing ==
    [][\A n \in Nodes, s \in 1..MaxTxns, c \in Conns, ok \in BOOLEAN :
          Handler(n, s, c, ok) => stream' = stream]_vars

\* C3: the handler drops (acks without Apply) exactly the ChangeSets of its
\* own node name and its own process id, and hands every other one to Apply,
\* those of an earlier process of the same node included.
C3_OriginFilter ==
    [][\A n \in Nodes, s \in 1..MaxTxns, c \in Conns, ok \in BOOLEAN :
          Handler(n, s, c, ok) =>
              IF stream[s].node = n /\ stream[s].pid = processID[n]
              THEN /\ s \notin applied'[n]
                   /\ db'[n] = db[n]
                   /\ ok => s \in acked'[n]
              ELSE s \in applied'[n]]_vars

\* A ChangeSet of an earlier process of the node itself was handed to Apply.
C3_Witness ==
    \E n \in Nodes : \E s \in applied[n] :
        stream[s].node = n /\ stream[s].pid # processID[n]

\* Every stored ChangeSet has been handed to Apply on every node other than
\* the one it comes from.
AllApplied ==
    \A n \in Nodes, s \in Seqs : stream[s].node # n => s \in applied[n]

C5_Convergence ==
    (Quiescent /\ CleanRun) => \A n, m \in Nodes : db[n] = db[m]

\* The row r as a ChangeSet leaves it at its origin, by its last change on r.
RECURSIVE Written(_, _)
Written(changes, r) ==
    LET ch == changes[Len(changes)]
    IN  IF ch.new = r THEN ch.val
        ELSE IF ch.old = r THEN Absent
        ELSE Written(SubSeq(changes, 1, Len(changes) - 1), r)

Touches(changes, r) ==
    \E i \in 1..Len(changes) : changes[i].new = r \/ changes[i].old = r

Touching(r) == {s \in Seqs : Touches(stream[s].changes, r)}

Highest(S) == CHOOSE x \in S : \A y \in S : y <= x

\* C6: once nothing is in flight, every row on every node is as the ChangeSet
\* with the highest stream sequence on that row wrote it.
C6_LastWriterWins ==
    (Quiescent /\ CleanRun) =>
        \A n \in Nodes, r \in RowIds :
            Touching(r) # {} =>
                db[n][r] = Written(stream[Highest(Touching(r))].changes, r)

\* C7: a second Apply of a ChangeSet leaves the rows as the first one did.
C7_ReplayIdempotent == runs = 2 => adb = first

\* C8: a commit whose Publish returned an error fails for the client and
\* leaves the database as it was before the transaction.
C8_FailedPublishAbortsCommit ==
    [][\A n \in Nodes :
          (tx[n] # NoTx /\ tx'[n] = NoTx /\ txlog'[tx[n].id].pub = "err") =>
              /\ txlog'[tx[n].id].res = "error"
              /\ db'[n] = tx[n].undo]_vars

C8_Witness ==
    \E t \in 1..Len(txlog) :
        /\ txlog[t].pub = "err"
        /\ txlog[t].res = "error"
        /\ tx[txlog[t].node] = NoTx

\* C9: no stored ChangeSet belongs to a transaction that was rolled back.
C9_PublishedImpliesDurable ==
    \A s \in Seqs : stream[s].ts \in 1..Len(txlog) => txlog[stream[s].ts].res = "ok"

\* C10: a handler call whose Apply returns an error leaves the message
\* unacknowledged and streamSeq as it was.
C10_NoAckOnApplyError ==
    [][\A n \in Nodes, s \in 1..MaxTxns, c \in Conns, ok \in BOOLEAN :
          (/\ Handler(n, s, c, ok)
           /\ ~(stream[s].node = n /\ stream[s].pid = processID[n])
           /\ Apply(db[n], conn[n][c], stream, n, processID[n],
                    stream[s].changes, tx[n] # NoTx).err) =>
              /\ acked'[n] = acked[n]
              /\ streamSeq'[n] = streamSeq[n]]_vars

\* Apply was called for a message and ack was never called on that node.
C10_Witness ==
    \E n \in Nodes : \E s \in applied[n] :
        streamSeq[n] = 0 /\ s \notin acked[n]

\* C11: a handler call on a payload that does not decode changes no row,
\* hands nothing to Apply, calls ack (the server holds the message as
\* acknowledged unless msg.Ack fails) and leaves the next message deliverable.
C11_PoisonAckedAndDropped ==
    [][\A n \in Nodes, s \in 1..(PoisonTxns + MaxPoison), c \in Conns, ok \in BOOLEAN :
          (Handler(n, s, c, ok) /\ stream[s].bad) =>
              /\ db'[n] = db[n]
              /\ applied'[n] = applied[n]
              /\ streamSeq'[n] = s
              /\ ok => s \in acked'[n]
              /\ delivered'[n] >= s]_vars

\* An undecodable payload was acknowledged and a later ChangeSet was handed
\* to Apply on the same node.
C11_Witness ==
    \E n \in Nodes : \E s \in acked[n] : \E s2 \in applied[n] :
        stream[s].bad /\ s2 > s

\* The rows after all statements of the ChangeSet under test have run on the
\* database before the last Apply (up to the first failing one).
AllRun == ApplyChanges(prev, disableCDCHooks(FreshConn), acs)

\* C12: after an Apply that returned an error the database is as it was
\* before the call; after one that returned nil it holds the effect of every
\* change of the ChangeSet.
C12_ApplyAllOrNothing ==
    runs > 0 =>
        IF aerr THEN adb = prev ELSE ~AllRun.err /\ adb = AllRun.db

\* An Apply failed on a later statement after an earlier one had changed a row.
C12_Witness == runs > 0 /\ aerr /\ AllRun.db # prev

\* C13: a handler call that hands ChangeSet s to Apply on node n comes after
\* no call that handed a ChangeSet with a higher sequence to Apply on n.
C13_ApplyInSequenceOrder ==
    [][\A n \in Nodes, s \in 1..MaxTxns, c \in Conns, ok \in BOOLEAN :
          (Handler(n, s, c, ok) /\ s \in applied'[n]) =>
              \A s2 \in applied[n] : s2 <= s]_vars

\* The committed transactions of node n, in commit order: a node has one
\* writer at a time, so its transactions commit in the order they took the
\* write lock, which is their order in txlog.
Committed(n) == {t \in 1..Len(txlog) : txlog[t].node = n /\ txlog[t].res = "ok"}

C17_FailedSnapshotKeepsLatest ==
    [][\A k \in Callers :
          (call[k].pc # "idle" /\ call'[k].pc = "idle") =>
              IF call'[k].res = "err"
              THEN store'[0] = call[k].before
              ELSE /\ store'[0] # NoObject
                   /\ store'[0].seq = call[k].seq
                   /\ \A i \in 1..MaxSnaps : store'[i] = NoObject]_vars

\* A call of TakeSnapshot has steps left: it holds the lock, or its Put
\* goroutine is still running.
Snapshotting(k) ==
    \/ call[k].pc # "idle"
    \/ \E p \in pending : p.by = k

\* C18: no two TakeSnapshot calls have steps left at the same time, and
\* GetLatestSnapshot does not read while a call is past its rename.
C18_OneSnapshotAtATime ==
    /\ \A k1, k2 \in Callers : k1 # k2 => ~(Snapshotting(k1) /\ Snapshotting(k2))
    /\ getter = "reading" => \A k \in Callers : call[k].pc = "idle"

\* C15: a start from the latest snapshot with header S > 0 and no policy
\* of the operator opens the subscriber with by_start_sequence = S + 1; a
\* policy of the operator is used as it is.
C15_ResumePolicy ==
    [][\A n \in Nodes, op \in OperatorPolicies, fresh \in BOOLEAN :
          RestoreRestart(n, op, fresh) =>
              policy'[n] = IF store[0].seq > 0 /\ op = NoPolicy
                           THEN ByStartSequence(store[0].seq + 1)
                           ELSE op]_vars

\* C16: once nothing is in flight, a node that started from the latest
\* snapshot has every ChangeSet of the other nodes: in the image it
\* restored, or handed to Apply since then.
C16_ResumeLosesNothing ==
    \A n \in Nodes :
        (Quiescent /\ processID[n] > 1) =>
            \A s \in Seqs : stream[s].node # n => s \in applied[n]

\* What a batch leaves in the database when every statement of it runs.
RECURSIVE ExecAll(_, _)
ExecAll(d, queries) ==
    IF queries = <<>> THEN d
    ELSE ExecAll(ExecStatement(d, Head(queries)).db, Tail(queries))

\* C19: a batch of several statements of one HTTP request either commits
\* the effect of every statement with at most one ChangeSet published, or
\* leaves the database as it was and publishes nothing.
C19_BatchIsOneTransaction ==
    [][\A n \in Nodes, c \in Conns, o \in PubOutcomes,
         queries \in Queries(Len(txlog) + 1) :
          Transaction(n, c, queries, o) =>
              \/ /\ txlog'[Len(txlog')].res = "ok"
                 /\ db'[n] = ExecAll(db[n], queries)
                 /\ Len(stream') <= Len(stream) + 1
              \/ /\ txlog'[Len(txlog')].res # "ok"
                 /\ db'[n] = db[n]
                 /\ stream' = stream]_vars

\* C20: a transaction in which a statement failed is never committed and
\* none of its changes is published.
C20_FailedStatementRollsBack ==
    \A t \in 1..Len(txlog) :
        txlog[t].failed => txlog[t].res # "ok" /\ PublishedOf(t) = {}

\* The text is made of statements the parser accepts.
AllValid(sql) == \A i \in 1..Len(sql) : sql[i].rule # Invalid

\* C21: text with more than one statement is refused with the "multiple SQL
\* statements" error, and no Statement comes back, whatever it starts with.
C21_MultipleStatementsRejected ==
    (ret.kind = "statement" /\ Len(arg.sql) > 1 /\ AllValid(arg.sql)) =>
        ret.value.err = "multiple"

\* The markers of a list in first-seen order, a named one once, ? every time.
RECURSIVE FirstSeen(_, _)
FirstSeen(markers, i) ==
    IF i > Len(markers) THEN <<>>
    ELSE IF markers[i] = "?" \/ \A j \in 1..(i - 1) : markers[j] # markers[i]
    THEN <<markers[i]>> \o FirstSeen(markers, i + 1)
    ELSE FirstSeen(markers, i + 1)

\* C25: the parameters of a classified statement are its bind markers in
\* first-seen order, a named marker once, the anonymous marker once per
\* occurrence.
C25_ParametersFirstSeen ==
    (ret.kind = "statement" /\ Len(arg.sql) = 1 /\ ret.value.err = "") =>
        ret.value.stmt.parameters = FirstSeen(arg.sql[1].markers, 1)

C25_Witness ==
    /\ ret.kind = "statement"
    /\ Len(arg.sql) = 1
    /\ ret.value.err = ""
    /\ arg.sql[1].markers = <<"?", "?">>
    /\ ret.value.stmt.parameters = <<"?", "?">>

\* A query of one statement was served without error.
Served == ret.kind = "reply" /\ Len(arg.sql) = 1 /\ ret.value.err = ""

\* The rows a data statement affects on database d.
Affected(d, q) == Len(ExecStatement(d, ChangeOf(q)).pre)

\* C23: the completion tag names the statement type and its effect:
\* INSERT 0 n, UPDATE n, DELETE n with n the rows affected, SELECT n with n
\* the rows returned, the type alone for the other classified statements.
C23_CompletionTag ==
    Served =>
        LET q == arg.sql[1]
            tag == ret.value.tag
        IN  CASE q.rule = TypeInsert -> tag = Tag("INSERT 0", Affected(arg.db, q))
              [] q.rule = TypeUpdate -> tag = Tag("UPDATE", Affected(arg.db, q))
              [] q.rule = TypeDelete -> tag = Tag("DELETE", Affected(arg.db, q))
              [] q.rule = TypeSelect ->
                    tag = Tag("SELECT", IF arg.db[q.row] = Absent THEN 0 ELSE 1)
              [] q.rule = TypeCreateTable -> tag = Tag(TypeCreateTable, NoCount)
              [] OTHER -> TRUE

\* C24: an INSERT with RETURNING goes the query path, its rows come back,
\* and its completion tag is an INSERT tag.
C24_InsertReturningTag ==
    (Served /\ arg.sql[1].rule = TypeInsert /\ arg.sql[1].returning) =>
        /\ ret.value.rows = Affected(arg.db, arg.sql[1])
        /\ ret.value.tag.verb = "INSERT 0"

\* What session c of node n reads: handler runs the statement on the
\* session's transaction if it has one, on the database pool otherwise.
Read(n, c) ==
    IF tx[n] # NoTx /\ tx[n].conn = c THEN db[n] ELSE CommittedDB(n)

HasAlterTable(cs) ==
    \E i \in 1..Len(cs) : cs[i] \in {"ALTER TABLE test", "  alter table test"}

SQLTexts(cs) ==
    {cs.changes[i].val : i \in {j \in 1..Len(cs.changes) : cs.changes[j].op = "SQL"}}

\* C27: a DDL statement committed on a node is in the stream as a Change
\* with operation "SQL", and a node that has applied and acknowledged that
\* ChangeSet has executed the statement.
C27_DDLReplicated ==
    /\ \A n \in Nodes : \A text \in schema[n] :
          \E s \in 1..Len(stream) : text \in SQLTexts(stream[s])
    /\ \A n \in Nodes, s \in 1..Len(stream) :
          (s \in applied[n] /\ s \in acked[n]) => SQLTexts(stream[s]) \subseteq schema[n]

\* C28: latest_seq of a subscriber is the highest stream sequence among the
\* messages it has acked with success (0 when there is none).
C28_LatestSeqIsHighestAcked ==
    \A n \in Nodes :
        streamSeq[n] = IF acked[n] = {} THEN 0
                       ELSE CHOOSE s \in acked[n] : \A s2 \in acked[n] : s2 <= s

\* C29: the seq header TakeSnapshot writes is the subscriber's latest_seq
\* at the time of the call.
C29_HeaderIsLatestSeq ==
    [][\A n \in Nodes : TakeSnapshot(n) => store'[0].seq = streamSeq[n]]_vars

\* C30: when Close has returned, no handler of the subscriber is at work.
C30_CloseDrainsHandlers ==
    \A n \in Nodes : closed[n] => running[n] = 0

\* C31: a pool is closed only after the subscriber of its database has been
\* drained and its publisher closed, so no handler is at work on a closed pool.
C31_ShutdownOrder ==
    \A n \in Nodes :
        pool[n] = "closed" =>
            closed[n] /\ running[n] = 0 /\ pubState[n] = "closed"

\* C32: the ChangeSet published for a committed transaction holds the row
\* changes that are part of the transaction, all of them and no others.
C32_PublishedIsCommitted ==
    \A s \in 1..Len(stream) :
        txlog[stream[s].ts].res = "ok" =>
            stream[s].changes = txlog[stream[s].ts].changes

\* C33: whatever way the handler and its Apply take, the connection they
\* used is back in the pool with its three hooks registered and an empty
\* ChangeSet, and a client transaction that commits on a node holds the
\* changes of its statements in the ChangeSet of its connection.
C33_HooksBackAfterApply ==
    [][/\ \A n \in Nodes, s \in 1..MaxTxns, c \in Conns, ok \in BOOLEAN :
             Handler(n, s, c, ok) => conn'[n][c] = FreshConn
       /\ \A n \in Nodes, c \in Conns, st \in Statements(Len(txlog) + 1) :
             ClientExec(n, c, st) =>
                 /\ conn[n][c].hooks
                 /\ conn'[n][c].cs = txlog'[tx'[n].id].changes]_vars

\* A node on which Apply returned an error and nothing was acknowledged, its
\* connections with hooks and empty ChangeSets, and a transaction of that
\* node committed and published.
C33_Witness ==
    \E n \in Nodes :
        /\ \E s \in applied[n] : s \notin acked[n] /\ streamSeq[n] = 0
        /\ \A c \in Conns : conn[n][c] = FreshConn
        /\ \E t \in 1..Len(txlog) :
              txlog[t].node = n /\ txlog[t].res = "ok" /\ txlog[t].pub = "ok"

\* C34: the i-th protocol value is bound to the i-th parameter of the
\* prepared statement, whatever the form of its markers and whichever key
\* the range over the parameter map yields first.
C34_ValuesBoundByIndex ==
    ret.kind = "bound" =>
        \A i \in 1..Len(ret.parameters) : ret.value[i] = i

\* C35: the registry map is never read by one session while another one is
\* writing it.
C35_NoReadDuringWrite ==
    \A t \in Threads, u \in Threads :
        ~(thr[t].pc = "writing" /\ thr[u].pc = "reading")

\* C36: Drop removes an entry only when its connector (publisher,
\* subscriber, snapshotter) and its pool are closed; a Drop that fails
\* leaves the registry and the collaborators as they were.
C36_DropClosesAll ==
    [][\A t \in Threads :
          /\ DropDelete(t) =>
                /\ ent[thr[t].obj].connector = "closed"
                /\ ent[thr[t].obj].pool = "closed"
          /\ \A fileErr \in BOOLEAN :
                (DropLookup(t, fileErr) /\ thr'[t] = Idle) =>
                    dbs' = dbs /\ ent' = ent]_vars

\* No session is at work on the registry.
Quiet == \A t \in Threads : thr[t] = Idle

\* C37: between the operations every key of the registry, the empty one
\* included, resolves to a database with an open connector that is registered
\* under its own identifier; Databases() never lists the empty key; Load of a
\* registered identifier changes nothing.
C37_KeysResolve ==
    [][/\ Quiet' =>
             /\ \A k \in Keys :
                   dbs'[k] # NoEntry =>
                       /\ ent'[dbs'[k]].connector = "open"
                       /\ dbs'[ent'[dbs'[k]].id] = dbs'[k]
             /\ "" \notin Databases'
       /\ \A t \in Threads, nilSafe \in BOOLEAN :
             (LoadOpen(t, nilSafe) /\ dbs[thr[t].id] # NoEntry) =>
                 thr'[t] = Idle /\ dbs' = dbs /\ ent' = ent]_vars

\* C38: Load with --from-latest-snapshot and no snapshot in the store goes on
\* to register the database with an open connector and pool.
C38_LoadWithoutSnapshot ==
    [][\A t \in Threads, nilSafe \in BOOLEAN :
          (LoadOpen(t, nilSafe) /\ thr[t].opt = "nosnapshot"
              /\ dbs[thr[t].id] = NoEntry) =>
                /\ thr'[t].pc = "writing"
                /\ ent'[thr'[t].obj].connector = "open"
                /\ ent'[thr'[t].obj].pool = "open"]_vars

\* C39: a session that has ended holds no open transaction and no pooled
\* connection, on either server; after COMMIT or ROLLBACK on the PostgreSQL
\* server the session has no transaction.
C39_SessionEndRollsBack ==
    [][/\ \A t \in Threads :
             (sess'[t].server # "none" /\ ~sess'[t].alive) => held'[t] = "none"
       /\ \A t \in Threads, fail \in BOOLEAN :
             (PgStatement(t, "COMMIT", fail) \/ PgStatement(t, "ROLLBACK", fail)) =>
                 sess'[t].tx = "nil" /\ held'[t] = "none"]_vars

\* C40: on the MySQL handler BEGIN with a database selected and no
\* transaction open opens one transaction and reports success; BEGIN, COMMIT
\* or ROLLBACK that report an error leave h.tx as it was; BEGIN inside a
\* transaction and COMMIT or ROLLBACK outside one report an error.
C40_MySQLTransactionState ==
    [][\A t \in Threads, q \in {"BEGIN", "COMMIT", "ROLLBACK"}, fail \in BOOLEAN :
          HandleQuery(t, q, fail) =>
              /\ (q = "BEGIN" /\ sess[t].db /\ sess[t].tx = "nil" /\ ~fail) =>
                     /\ sess'[t].res = "ok"
                     /\ sess'[t].tx = "set"
                     /\ held'[t] = "open"
              /\ sess'[t].res = "err" => sess'[t].tx = sess[t].tx
              /\ (q = "BEGIN" /\ sess[t].tx # "nil") => sess'[t].res = "err"
              /\ (q # "BEGIN" /\ sess[t].tx = "nil") => sess'[t].res = "err"]_vars

====
